---------------------------- MODULE Spec2Model ----------------------------
(***************************************************************************)
(* A model of the content-generation service (src/main.py, src/api.py,     *)
(* src/app.py).                                                            *)
(*                                                                         *)
(* The module holds several specifications over one set of variables:      *)
(*   SpecApi   - the entry points (GET/POST /generate, POST /batch, the    *)
(*               CLI main) up to the calls they issue to generate_content; *)
(*   SpecScore - _calculate_seo_score and _check_plagiarism on texts;      *)
(*   SpecSeo   - _calculate_seo_score on pairs of texts that differ in     *)
(*               their word count;                                         *)
(*   SpecFetch - fetch_web_data and safe_fetch, one outbound call at a     *)
(*               time, under every outcome of the calls;                   *)
(*   SpecGen   - generate_content of main.py, stage by stage;             *)
(*   SpecPad   - _adjust_length on short texts, one loop iteration at a    *)
(*               time, with weak fairness of its steps;                    *)
(*   SpecVary  - _humanize_content on texts of a few sentences, with every *)
(*               outcome of the random draws;                              *)
(*   SpecConc  - generate_content calls interleaved on the one generator.  *)
(* Each specification leaves the variables of the others at their initial  *)
(* values.                                                                 *)
(*                                                                         *)
(* Strings the entry points handle character-wise (strip, int) are         *)
(* sequences of one-character strings; the texts of the pipeline are       *)
(* sequences of tokens.  JSON / query-string values are tagged records     *)
(* [t, v] with t in "absent", "null", "str", "int", "list", "object".      *)
(***************************************************************************)
EXTENDS Integers, Sequences, FiniteSets, TLC

VARIABLES
    apc,        \* entry points: "idle" (waiting for a request) or "done"
    request,    \* the request being served (endpoint, method, data)
    calls,      \* the generate_content calls issued while serving it, in order
    response,   \* the response produced for it
    failed,     \* which of the calls raised in a pipeline stage (0: none)
    scoreArgs,  \* scoring: the texts and keywords the scores are computed of
    scoreOut,   \* scoring: the scores computed so far
    fpc,        \* fetch_web_data: the position in its code
    fetchIn,    \* fetch_web_data: which file's code runs, the query, the network
    fattempt,   \* safe_fetch: the value of its loop variable
    fhtml,      \* what the last outbound call answered
    fresearch,  \* what fetch_web_data returned
    flog,       \* the outbound calls and sleeps made so far, in order
    gpc,        \* generate_content: the stage about to run
    genArgs,    \* generate_content: topic, keywords, tone, length
    gcontent,   \* generate_content: the local variable content
    gresult,    \* generate_content: the dictionary returned
    gfillers,   \* _adjust_length: the fillers chosen by its loop so far
    generator,  \* concurrent calls: the fields of the one shared generator
    cpc,        \* concurrent calls: the step each call is about to run
    cinput,     \* concurrent calls: each call's arguments, answer and draws
    cframe,     \* concurrent calls: the local variables research and content
    cresult     \* concurrent calls: the dictionary each call returned

apiVars == <<apc, request, calls, response, failed>>
scoreVars == <<scoreArgs, scoreOut>>
fetchVars == <<fpc, fetchIn, fattempt, fhtml, fresearch, flog>>
genVars == <<gpc, genArgs, gcontent, gresult, gfillers>>
concVars == <<generator, cpc, cinput, cframe, cresult>>
vars == <<apc, request, calls, response, failed, scoreArgs, scoreOut,
          fpc, fetchIn, fattempt, fhtml, fresearch, flog,
          gpc, genArgs, gcontent, gresult, gfillers,
          generator, cpc, cinput, cframe, cresult>>

(***************************************************************************)
(* Python values and conversions.                                          *)
(***************************************************************************)
Absent == [t |-> "absent", v |-> <<>>]
Null == [t |-> "null", v |-> <<>>]
JStr(s) == [t |-> "str", v |-> s]
JInt(n) == [t |-> "int", v |-> n]
JList(l) == [t |-> "list", v |-> l]

Whitespace == {" "}
Digits == {"0", "1", "2", "3", "4", "5", "6", "7", "8", "9"}

\* str.strip(): drop leading and trailing whitespace.
RECURSIVE lstrip(_)
lstrip(s) ==
    IF s # <<>> /\ Head(s) \in Whitespace THEN lstrip(Tail(s)) ELSE s

RECURSIVE rstrip(_)
rstrip(s) ==
    IF s # <<>> /\ s[Len(s)] \in Whitespace
    THEN rstrip(SubSeq(s, 1, Len(s) - 1))
    ELSE s

strip(s) == rstrip(lstrip(s))

DigitValue(c) ==
    CASE c = "0" -> 0 [] c = "1" -> 1 [] c = "2" -> 2 [] c = "3" -> 3
      [] c = "4" -> 4 [] c = "5" -> 5 [] c = "6" -> 6 [] c = "7" -> 7
      [] c = "8" -> 8 [] c = "9" -> 9

RECURSIVE DigitsValue(_)
DigitsValue(s) ==
    IF s = <<>> THEN 0
    ELSE 10 * DigitsValue(SubSeq(s, 1, Len(s) - 1)) + DigitValue(s[Len(s)])

\* int(x): [ok |-> TRUE, v |-> n], or ok = FALSE when int() raises
\* (ValueError for a string that is no integer literal, TypeError for None).
\* A string is stripped, may carry one sign, and must then be all digits.
int(x) ==
    IF x.t = "int" THEN [ok |-> TRUE, v |-> x.v]
    ELSE IF x.t = "str" THEN
        LET s == strip(x.v)
            signed == s # <<>> /\ s[1] \in {"-", "+"}
            body == IF signed THEN Tail(s) ELSE s
            sign == IF signed /\ s[1] = "-" THEN -1 ELSE 1
        IN  IF body # <<>> /\ \A i \in 1..Len(body) : body[i] \in Digits
            THEN [ok |-> TRUE, v |-> sign * DigitsValue(body)]
            ELSE [ok |-> FALSE, v |-> 0]
    ELSE [ok |-> FALSE, v |-> 0]

\* Python truthiness of a value: None, '' and 0 are falsy.
truthy(x) ==
    CASE x.t = "absent" -> FALSE
      [] x.t = "null" -> FALSE
      [] x.t = "str" -> x.v # <<>>
      [] x.t = "int" -> x.v # 0
      [] x.t = "list" -> x.v # <<>>

\* dict.get(key, default): the default only replaces a missing key.
get(x, default) == IF x.t = "absent" THEN default ELSE x

max(a, b) == IF a >= b THEN a ELSE b
min(a, b) == IF a <= b THEN a ELSE b

(***************************************************************************)
(* Program constants of the entry points.                                  *)
(***************************************************************************)
MinLength == 100
MaxLength == 2000
DefaultLength == 500
BatchDefaultLength == 300
TestLength == 300
MaxTopics == 10

professional == <<"p", "r", "o", "f", "e", "s", "s", "i", "o", "n", "a", "l">>
casual == <<"c", "a", "s", "u", "a", "l">>
ArtificialIntelligence ==
    <<"A", "r", "t", "i", "f", "i", "c", "i", "a", "l", " ",
      "I", "n", "t", "e", "l", "l", "i", "g", "e", "n", "c", "e">>
TestKeywords ==
    <<"A", "I", ",", " ", "m", "a", "c", "h", "i", "n", "e", " ",
      "l", "e", "a", "r", "n", "i", "n", "g", ",", " ",
      "d", "e", "e", "p", " ", "l", "e", "a", "r", "n", "i", "n", "g">>

(***************************************************************************)
(* The entry points.  Each handler is an operator from the request to      *)
(* [calls, response]: the generate_content calls it issues, in order, and  *)
(* the response it returns.  A call is the record of its four arguments.   *)
(***************************************************************************)
Call(topic, keywords, tone, length) ==
    [topic |-> topic, keywords |-> keywords, tone |-> tone, length |-> length]

Response(status, success, error, count) ==
    [status |-> status, success |-> success, error |-> error, count |-> count]

NoResponse == Response(0, FALSE, "none", 0)

\* "Convert length to integer": int(), then the clamp; any exception gives
\* the default.
clamp_length(n) == max(MinLength, min(MaxLength, n))

\* parse_length without the clamp.
parse_length_unclamped(data) ==
    LET r == int(get(data.length, JInt(DefaultLength)))
    IN  IF r.ok THEN r.v ELSE DefaultLength

parse_length(data) ==
    LET r == int(get(data.length, JInt(DefaultLength)))
    IN  IF r.ok THEN clamp_length(r.v) ELSE DefaultLength

\* The test "if not data.get('topic')" of /generate.
topic_missing(data) == ~truthy(get(data.topic, Null))

\* request.args.get(name, default) for each field of a GET request.
get_args(args) ==
    [args EXCEPT !.topic = get(args.topic, JStr(<<>>)),
                 !.keywords = get(args.keywords, JStr(<<>>)),
                 !.tone = get(args.tone, JStr(professional)),
                 !.length = get(args.length, JStr(<<"5", "0", "0">>))]

\* /generate (GET, POST, OPTIONS), the same code in api.py and app.py.
generate_route(req) ==
    IF req.method = "OPTIONS"
    THEN [calls |-> <<>>, response |-> Response(200, FALSE, "none", 0)]
    ELSE
    LET data == IF req.method = "GET" THEN get_args(req.data) ELSE req.data
        length == parse_length(data)
        keywords == get(data.keywords, JStr(<<>>))
        tone == get(data.tone, JStr(professional))
    IN  IF topic_missing(data)
        THEN [calls |-> <<>>,
              response |-> Response(400, FALSE, "topic_required", 0)]
        ELSE IF data.topic.t # "str" \/ keywords.t # "str" \/ tone.t # "str"
        THEN \* .strip() on a value that is no string: AttributeError
             [calls |-> <<>>, response |-> Response(500, FALSE, "exception", 0)]
        ELSE [calls |-> <<Call(strip(data.topic.v), strip(keywords.v),
                               strip(tone.v), length)>>,
              response |-> Response(200, TRUE, "none", 1)]

\* The size checks of /batch.
no_topics(topics) == ~truthy(topics)
\* The size check off by one.
too_many_topics_off_by_one(topics) == Len(topics.v) > MaxTopics + 1

too_many_topics(topics) == Len(topics.v) > MaxTopics

\* The arguments of the call for one element of topics, or ok = FALSE when
\* int() raises while they are evaluated.
batch_call(item, data) ==
    IF item.t = "dict"
    THEN LET r == int(get(item.length, JInt(BatchDefaultLength)))
         IN  [ok |-> r.ok,
              call |-> Call(get(item.topic, JStr(<<>>)).v,
                            get(item.keywords, JStr(<<>>)).v,
                            get(item.tone, JStr(professional)).v, r.v)]
    ELSE LET r == int(get(data.length, JInt(BatchDefaultLength)))
         IN  [ok |-> r.ok,
              call |-> Call(item.v, get(data.keywords, JStr(<<>>)).v,
                            get(data.tone, JStr(professional)).v, r.v)]

\* The loop "for topic in topics": the calls made, and whether it raised.
RECURSIVE batch_loop(_, _, _, _)
batch_loop(topics, data, i, made) ==
    IF i > Len(topics) THEN [calls |-> made, raised |-> FALSE]
    ELSE LET c == batch_call(topics[i], data)
         IN  IF ~c.ok THEN [calls |-> made, raised |-> TRUE]
             ELSE batch_loop(topics, data, i + 1, Append(made, c.call))

\* POST /batch.
batch_generate(req) ==
    IF ~req.is_json
    THEN [calls |-> <<>>, response |-> Response(400, FALSE, "not_json", 0)]
    ELSE
    LET topics == get(req.data.topics, JList(<<>>))
    IN  IF no_topics(topics)
        THEN [calls |-> <<>>, response |-> Response(400, FALSE, "no_topics", 0)]
        ELSE IF too_many_topics(topics)
        THEN [calls |-> <<>>, response |-> Response(400, FALSE, "too_many", 0)]
        ELSE LET r == batch_loop(topics.v, req.data, 1, <<>>)
             IN  IF r.raised
                 THEN [calls |-> r.calls,
                       response |-> Response(500, FALSE, "exception", 0)]
                 ELSE [calls |-> r.calls,
                       response |-> Response(200, TRUE, "none", Len(r.calls))]

\* The CLI: main() of main.py.  method "argv" carries one JSON argument
\* (is_json tells whether json.loads accepts it), "test" carries none.
main(req) ==
    IF req.method = "test"
    THEN [calls |-> <<Call(ArtificialIntelligence, TestKeywords,
                           professional, TestLength)>>,
          response |-> Response(0, TRUE, "none", 1)]
    ELSE IF ~req.is_json
    THEN [calls |-> <<>>, response |-> Response(0, FALSE, "exception", 0)]
    ELSE LET r == int(get(req.data.length, JInt(DefaultLength)))
         IN  IF ~r.ok
             THEN [calls |-> <<>>,
                   response |-> Response(0, FALSE, "exception", 0)]
             ELSE [calls |-> <<Call(get(req.data.topic, JStr(<<>>)).v,
                                    get(req.data.keywords, JStr(<<>>)).v,
                                    get(req.data.tone, JStr(professional)).v,
                                    r.v)>>,
                   response |-> Response(0, TRUE, "none", 1)]

(***************************************************************************)
(* The state of the scoring functions before any text is scored.           *)
(***************************************************************************)
NotComputed == -1

ScoreArgs(content, other, keywords, variant, tokenizer_ok) ==
    [content |-> content, other |-> other, keywords |-> keywords,
     variant |-> variant, tokenizer_ok |-> tokenizer_ok]

NoScores == [seo_score |-> NotComputed, other_seo_score |-> NotComputed,
             seo_raised |-> FALSE, plagiarism_score |-> NotComputed]

ScoreIdle ==
    /\ scoreArgs = ScoreArgs(<<>>, <<>>, <<>>, "none", TRUE)
    /\ scoreOut = NoScores

(***************************************************************************)
(* The state of fetch_web_data and of generate_content before any call.    *)
(***************************************************************************)
FetchIn(variant, query, network) ==
    [variant |-> variant, query |-> query, network |-> network]

NoHtml ==
    [kind |-> "none", exc |-> "none", status |-> 0,
     body |-> [t |-> "null", v |-> <<>>]]
NoResearch == [t |-> "none", v |-> <<>>]

FetchIdle ==
    /\ fpc = "idle"
    /\ fetchIn = FetchIn("none", <<>>, "none")
    /\ fattempt = 0
    /\ fhtml = NoHtml
    /\ fresearch = NoResearch
    /\ flog = <<>>

GenArgs(topic, keywords, tone, length) ==
    [topic |-> topic, keywords |-> keywords, tone |-> tone, length |-> length]

NoResult == [success |-> FALSE, content |-> <<>>, word_count |-> NotComputed,
             seo_score |-> NotComputed, plagiarism_score |-> NotComputed]

\* No concurrent call is under way.
ConcIdle ==
    /\ generator = <<>>
    /\ cpc = <<>>
    /\ cinput = <<>>
    /\ cframe = <<>>
    /\ cresult = <<>>

GenIdle ==
    /\ gpc = "idle"
    /\ genArgs = GenArgs(<<>>, <<>>, "none", 0)
    /\ gcontent = <<>>
    /\ gresult = NoResult
    /\ gfillers = <<>>

(***************************************************************************)
(* The requests the entry points are driven with.                          *)
(***************************************************************************)
\* How many topics beyond MaxTopics a batch list of the model may hold.
BatchOver == 1

Data(topic, keywords, tone, length, topics) ==
    [topic |-> topic, keywords |-> keywords, tone |-> tone,
     length |-> length, topics |-> topics]

Request(endpoint, server, method, is_json, data) ==
    [endpoint |-> endpoint, server |-> server, method |-> method,
     is_json |-> is_json, data |-> data]

NoData == Data(Absent, Absent, Absent, Absent, Absent)
NoRequest == Request("none", "none", "none", FALSE, NoData)

TopicStrings == {JStr(<<>>), JStr(<<" ">>), JStr(<<"A", "I">>),
                 JStr(<<" ", "A", "I", " ">>)}
LengthStrings == {JStr(<<"1", "5", "0">>), JStr(<<" ", "4", "2", " ">>),
                  JStr(<<"-", "7">>), JStr(<<"9", "9", "9", "9">>),
                  JStr(<<"a", "b", "c">>), JStr(<<"1", "2", ".", "5">>),
                  JStr(<<>>)}
LengthNumbers == {JInt(-5), JInt(0), JInt(99), JInt(100), JInt(300),
                  JInt(2000), JInt(2001)}
KeywordValues == {Absent, JStr(<<"a", "i">>)}
ToneValues == {Absent, JStr(casual)}

\* A query string or a form carries strings only; a JSON body any value.
FormData ==
    {Data(t, k, o, l, Absent) :
        t \in TopicStrings \cup {Absent}, k \in KeywordValues,
        o \in ToneValues, l \in LengthStrings \cup {Absent}}
JsonData ==
    {Data(t, k, o, l, Absent) :
        t \in TopicStrings \cup {Absent, Null, JInt(7)}, k \in KeywordValues,
        o \in ToneValues,
        l \in LengthStrings \cup LengthNumbers \cup {Absent, Null}}

GenerateRequests ==
    {Request("generate", s, "GET", FALSE, d) :
        s \in {"api", "app"}, d \in FormData}
    \cup {Request("generate", s, "POST", FALSE, d) :
        s \in {"api", "app"}, d \in FormData}
    \cup {Request("generate", s, "POST", TRUE, d) :
        s \in {"api", "app"}, d \in JsonData}
    \cup {Request("generate", s, "OPTIONS", FALSE, NoData) :
        s \in {"api", "app"}}

\* An element of topics: a bare string, or an object with its own fields.
Bare(s) == [t |-> "str", v |-> s, topic |-> Absent, keywords |-> Absent,
            tone |-> Absent, length |-> Absent]
Dict(topic, length) ==
    [t |-> "dict", v |-> <<>>, topic |-> topic, keywords |-> Absent,
     tone |-> Absent, length |-> length]

BatchItems ==
    {Bare(<<"A", "I">>), Bare(<<>>)}
    \cup {Dict(t, l) :
            t \in {Absent, JStr(<<>>), JStr(<<"A", "I">>)},
            l \in {Absent, JInt(0), JInt(5000), JStr(<<"a", "b", "c">>)}}

\* Lists of n elements, all a except the j-th, which is b.
BatchLists ==
    {[i \in 1..n |-> IF i = j THEN b ELSE a] :
        n \in 0..(MaxTopics + BatchOver), j \in {1, 2, MaxTopics},
        a \in BatchItems, b \in BatchItems}

BatchRequests ==
    {Request("batch", "api", "POST", TRUE, Data(Absent, Absent, Absent, l, t)) :
        l \in {Absent, JInt(-1), JStr(<<"a", "b", "c">>)},
        t \in {JList(x) : x \in BatchLists} \cup {Absent}}
    \cup {Request("batch", "api", "POST", FALSE, NoData)}

CliRequests ==
    {Request("cli", "main", "argv", TRUE, Data(t, k, o, l, Absent)) :
        t \in {Absent, JStr(<<>>), JStr(<<"A", "I">>)}, k \in KeywordValues,
        o \in ToneValues,
        l \in LengthNumbers \cup {Absent, Null, JStr(<<"1", "5", "0">>),
                                  JStr(<<"a", "b", "c">>)}}
    \cup {Request("cli", "main", "argv", FALSE, NoData),
          Request("cli", "main", "test", FALSE, NoData)}

(***************************************************************************)
(* SpecApi: the entry points serve one request after another.              *)
(***************************************************************************)
ApiIdle ==
    /\ apc = "idle"
    /\ request = NoRequest
    /\ calls = <<>>
    /\ response = NoResponse
    /\ failed = 0

ApiInit == ApiIdle /\ ConcIdle /\ ScoreIdle /\ FetchIdle /\ GenIdle

Serve(req, r) ==
    /\ apc' = "done"
    /\ request' = req
    /\ calls' = r.calls
    /\ response' = r.response
    /\ failed' = 0
    /\ UNCHANGED <<scoreVars, fetchVars, genVars, concVars>>

Generate ==
    /\ apc = "idle"
    /\ \E req \in GenerateRequests : Serve(req, generate_route(req))

Batch ==
    /\ apc = "idle"
    /\ \E req \in BatchRequests : Serve(req, batch_generate(req))

Cli ==
    /\ apc = "idle"
    /\ \E req \in CliRequests : Serve(req, main(req))

\* The response is sent; nothing of the request is kept.
Finish ==
    /\ apc = "done"
    /\ apc' = "idle"
    /\ request' = NoRequest
    /\ calls' = <<>>
    /\ response' = NoResponse
    /\ failed' = 0
    /\ UNCHANGED <<scoreVars, fetchVars, genVars, concVars>>

\* The except clause of a route that returns what was generated before the
\* stage raised.
stage_raised_partial(r, k) ==
    [calls |-> SubSeq(r.calls, 1, k),
     response |-> Response(200, TRUE, "none", k - 1)]

\* "except Exception as e" of /generate and of /batch when a stage of the
\* k-th generate_content call raises: the calls after it are not made, and
\* the response is the error alone, with status 500.
stage_raised(r, k) ==
    [calls |-> SubSeq(r.calls, 1, k),
     response |-> Response(500, FALSE, "exception", 0)]

ServeRaised(req, r) ==
    \E k \in 1..Len(r.calls) :
        LET e == stage_raised(r, k)
        IN  /\ apc' = "done"
            /\ request' = req
            /\ calls' = e.calls
            /\ response' = e.response
            /\ failed' = k
            /\ UNCHANGED <<scoreVars, fetchVars, genVars, concVars>>

\* /generate, a stage of generate_content raising.
GenerateRaises ==
    /\ apc = "idle"
    /\ \E req \in GenerateRequests : ServeRaised(req, generate_route(req))

\* /batch, a stage of one of the generate_content calls raising.
BatchRaises ==
    /\ apc = "idle"
    /\ \E req \in BatchRequests : ServeRaised(req, batch_generate(req))

ApiNext ==
    Generate \/ Batch \/ Cli \/ Finish \/ GenerateRaises \/ BatchRaises

SpecApi == ApiInit /\ [][ApiNext]_vars

(***************************************************************************)
(* Properties of the entry points (checked under SpecApi).                 *)
(***************************************************************************)
\* The topic and the length the served request carries, as the handler reads
\* them.
RequestTopic == get(request.data.topic, JStr(<<>>))
RequestTopics == get(request.data.topics, JList(<<>>))
RequestLength ==
    IF request.method = "GET"
    THEN get(request.data.length, JStr(<<"5", "0", "0">>))
    ELSE get(request.data.length, JInt(500))

\* C2: no entry point calls generate_content with an empty topic: a request
\* whose topic is missing or empty (also once trimmed, also a batch element
\* without a topic) is rejected before any call is made.
C2_NoEmptyTopicReachesPipeline ==
    \A i \in 1..Len(calls) : calls[i].topic # <<>>

\* C3: a batch whose topics list is empty or longer than 10 is rejected with
\* success=false and status 400 and makes no generate_content call; a batch
\* of 1 to 10 topics is never rejected for its size.
C3_BatchSizeLimits ==
    (apc = "done" /\ request.endpoint = "batch" /\ request.is_json) =>
        LET n == Len(RequestTopics.v)
        IN  /\ (n = 0 \/ n > 10) =>
                /\ response.status = 400
                /\ ~response.success
                /\ calls = <<>>
            /\ (n >= 1 /\ n <= 10) =>
                /\ response.status # 400
                /\ response.error \notin {"no_topics", "too_many"}

C3_Witness ==
    /\ apc = "done"
    /\ request.endpoint = "batch"
    /\ request.is_json
    /\ Len(RequestTopics.v) = 11
    /\ response.status = 400
    /\ calls = <<>>

\* C9: every call made by /generate passes an integer length in [100,2000]:
\* a parsable value clamped into the range, 500 for a missing value, and
\* 500 for a value int() rejects, the request being served all the same
\* (unless a stage of the pipeline raises).
C9_GenerateLengthClamped ==
    (apc = "done" /\ request.endpoint = "generate" /\ calls # <<>>) =>
        LET length == calls[1].length
            r == int(RequestLength)
        IN  /\ Len(calls) = 1
            /\ length >= 100 /\ length <= 2000
            /\ failed = 0 => response.success /\ response.status = 200
            /\ request.data.length = Absent => length = 500
            /\ ~r.ok => length = 500
            /\ r.ok => length = (IF r.v < 100 THEN 100
                                 ELSE IF r.v > 2000 THEN 2000 ELSE r.v)

C9_Witness ==
    /\ apc = "done"
    /\ request.endpoint = "generate"
    /\ request.data.length = JStr(<<"a", "b", "c">>)
    /\ Len(calls) = 1
    /\ calls[1].length = 500
    /\ response.success

\* C10: every call made by the batch endpoint or by the CLI passes a length
\* in [100,2000], whatever length the request supplies, and a length that
\* int() rejects falls back to the default instead of failing the request.
C10_BatchAndCliLengthClamped ==
    (apc = "done" /\ request.endpoint \in {"batch", "cli"}) =>
        /\ \A i \in 1..Len(calls) :
              calls[i].length >= 100 /\ calls[i].length <= 2000
        /\ (request.is_json /\ request.data.length = JStr(<<"a", "b", "c">>)
            /\ (request.endpoint = "batch" =>
                    Len(RequestTopics.v) \in 1..10))
              => response.success

\* C11: if a pipeline stage raises during a /generate or /batch request,
\* the response has success = false with an error message and holds no
\* generated result (for a batch, not even the results of the topics
\* processed before the failing one), and nothing of the failed request is
\* left for a later request.
C11_StageFailureGivesErrorOnly ==
    /\ (apc = "done" /\ failed > 0) =>
          /\ ~response.success
          /\ response.error # "none"
          /\ response.count = 0
          /\ response.status = 500
    /\ apc = "idle" =>
          request = NoRequest /\ calls = <<>> /\ response = NoResponse
              /\ failed = 0

C11_Witness ==
    /\ apc = "done" /\ request.endpoint = "batch"
    /\ failed = 3 /\ Len(calls) = 3
    /\ ~response.success /\ response.count = 0 /\ response.status = 500

(***************************************************************************)
(* Text.  A text is the sequence of its tokens: words and punctuation      *)
(* marks as the word tokenizer separates them (strings), and the           *)
(* whitespace that is not a single space: "\n\n" (a blank line, one        *)
(* paragraph break) and "\n".  Consecutive tokens are separated by one     *)
(* space, which is what ' '.join(words) produces.  The tokenizers are      *)
(* library code (nltk); they are modelled by what the pipeline relies on:  *)
(* word_tokenize yields the tokens that are not whitespace, sent_tokenize  *)
(* ends a sentence after each terminator and drops the whitespace between  *)
(* sentences.  Python's character-level string methods are computed on     *)
(* the characters of each token.                                           *)
(***************************************************************************)
ParagraphBreak == "\n\n"
LineBreak == "\n"
WhitespaceTokens == {ParagraphBreak, LineBreak}
Terminators == {".", "!", "?"}

UpperLetters == "ABCDEFGHIJKLMNOPQRSTUVWXYZ"
LowerLetters == "abcdefghijklmnopqrstuvwxyz"
DigitChars == "0123456789"

WhitespaceChars == {" ", "\n", "\t"}

CharSet(s) == {SubSeq(s, i, i) : i \in 1..Len(s)}

\* The characters the pattern \w matches.
WordChars == CharSet(UpperLetters) \cup CharSet(LowerLetters)
                \cup CharSet(DigitChars) \cup {"_"}

LowerChar ==
    [c \in CharSet(UpperLetters) |->
        LET i == CHOOSE j \in 1..26 : SubSeq(UpperLetters, j, j) = c
        IN  SubSeq(LowerLetters, i, i)]

UpperChar ==
    [c \in CharSet(LowerLetters) |->
        LET i == CHOOSE j \in 1..26 : SubSeq(LowerLetters, j, j) = c
        IN  SubSeq(UpperLetters, i, i)]

\* str.lower() of one token.
RECURSIVE lower(_)
lower(w) ==
    IF w = "" THEN ""
    ELSE LET c == SubSeq(w, 1, 1)
         IN  (IF c \in DOMAIN LowerChar THEN LowerChar[c] ELSE c)
                \o lower(SubSeq(w, 2, Len(w)))

\* re.sub(r'[^\w\s]', '', w) of one token.
RECURSIVE strip_punctuation(_)
strip_punctuation(w) ==
    IF w = "" THEN ""
    ELSE LET c == SubSeq(w, 1, 1)
         IN  (IF c \in WordChars \cup WhitespaceChars THEN c ELSE "")
                \o strip_punctuation(SubSeq(w, 2, Len(w)))

\* s.count(sub) within one token: non-overlapping occurrences, left to right.
RECURSIVE count_in(_, _)
count_in(w, sub) ==
    IF Len(w) < Len(sub) \/ sub = "" THEN 0
    ELSE IF SubSeq(w, 1, Len(sub)) = sub
    THEN 1 + count_in(SubSeq(w, Len(sub) + 1, Len(w)), sub)
    ELSE count_in(SubSeq(w, 2, Len(w)), sub)

endswith(w, suffix) ==
    Len(w) >= Len(suffix) /\ SubSeq(w, Len(w) - Len(suffix) + 1, Len(w)) = suffix

startswith(w, prefix) ==
    Len(w) >= Len(prefix) /\ SubSeq(w, 1, Len(prefix)) = prefix

\* text.lower() of a text of tokens.
lower_text(text) == [i \in 1..Len(text) |-> lower(text[i])]

\* The sum of the numbers of a sequence (by halves).
RECURSIVE SumRange(_, _, _)
SumRange(seq, a, b) ==
    IF a > b THEN 0
    ELSE IF a = b THEN seq[a]
    ELSE LET m == (a + b) \div 2
         IN  SumRange(seq, a, m) + SumRange(seq, m + 1, b)

Sum(seq) == SumRange(seq, 1, Len(seq))

\* The sequences of a sequence one after the other (by halves).
RECURSIVE FlattenRange(_, _, _)
FlattenRange(seqs, a, b) ==
    IF a > b THEN <<>>
    ELSE IF a = b THEN seqs[a]
    ELSE LET m == (a + b) \div 2
         IN  FlattenRange(seqs, a, m) \o FlattenRange(seqs, m + 1, b)

Flatten(seqs) == FlattenRange(seqs, 1, Len(seqs))

\* word_tokenize(text): the tokens that are not whitespace.
word_tokenize(text) == SelectSeq(text, LAMBDA t : t \notin WhitespaceTokens)

\* Whitespace at either end of a piece of text.
RECURSIVE ltrim(_)
ltrim(text) ==
    IF text # <<>> /\ Head(text) \in WhitespaceTokens
    THEN ltrim(Tail(text)) ELSE text

RECURSIVE rtrim(_)
rtrim(text) ==
    IF text # <<>> /\ text[Len(text)] \in WhitespaceTokens
    THEN rtrim(SubSeq(text, 1, Len(text) - 1)) ELSE text

trim(text) == rtrim(ltrim(text))

\* sent_tokenize(text): one sentence up to and including each terminator,
\* then what is left after the last one, each without the whitespace around
\* it; a piece with nothing in it is no sentence.
SentenceEnds(text) ==
    SelectSeq([i \in 1..Len(text) |-> i], LAMBDA i : text[i] \in Terminators)

sent_tokenize(text) ==
    LET ends == SentenceEnds(text)
        n == Len(ends)
        pieces == [k \in 1..(n + 1) |->
                     trim(SubSeq(text, IF k = 1 THEN 1 ELSE ends[k - 1] + 1,
                                 IF k <= n THEN ends[k] ELSE Len(text)))]
    IN  SelectSeq(pieces, LAMBDA piece : piece # <<>>)

\* ' '.join(sentences): the sentences one after the other.
join(sentences) == Flatten(sentences)

\* text.count(sub) for a sub that lies within tokens ('#').
count_chars(text, sub) ==
    Sum([i \in 1..Len(text) |-> count_in(text[i], sub)])

\* text.count('\n\n').
count_breaks(text) == Len(SelectSeq(text, LAMBDA t : t = ParagraphBreak))

\* text.count(phrase) for a phrase of one or more words separated by single
\* spaces: the phrase may begin inside a token and end inside a later one.
count_phrase(text, phrase) ==
    LET n == Len(phrase)
    IN  IF n = 0 THEN 0
        ELSE IF n = 1 THEN count_chars(text, phrase[1])
        ELSE Cardinality({i \in 1..(Len(text) - n + 1) :
                /\ endswith(text[i], phrase[1])
                /\ startswith(text[i + n - 1], phrase[n])
                /\ \A j \in 2..(n - 1) : text[i + j - 1] = phrase[j]})

(***************************************************************************)
(* Scoring.  The uniqueness score is kept in hundredths (8500 is 85.0).    *)
(* A keywords string is the sequence of its comma-separated items, each    *)
(* stripped and tokenized; '' is the empty sequence, and an item may be    *)
(* empty.                                                                  *)
(***************************************************************************)
\* [k.strip().lower() for k in keywords.split(',') if k.strip()]
keyword_list_lower(keywords) ==
    LET kept == SelectSeq(keywords, LAMBDA k : k # <<>>)
    IN  [i \in 1..Len(kept) |-> lower_text(kept[i])]

\* The bands with >= in place of >.
word_count_bonus_inclusive(word_count) ==
    IF word_count >= 800 THEN 20
    ELSE IF word_count >= 500 THEN 15
    ELSE IF word_count >= 300 THEN 10
    ELSE IF word_count >= 150 THEN 5
    ELSE 0

word_count_bonus(word_count) ==
    IF word_count > 800 THEN 20
    ELSE IF word_count > 500 THEN 15
    ELSE IF word_count > 300 THEN 10
    ELSE IF word_count > 150 THEN 5
    ELSE 0

headings_bonus(content) ==
    LET headings == count_chars(content, "#")
    IN  IF headings >= 3 THEN 15 ELSE IF headings >= 2 THEN 10 ELSE 0

paragraphs_bonus(content) ==
    LET paragraphs == count_breaks(content)
    IN  IF paragraphs >= 5 THEN 10 ELSE IF paragraphs >= 3 THEN 5 ELSE 0

\* density = count / word_count * 100; 1 <= density <= 3 earns 10, any other
\* presence 5.
keyword_bonus(content_lower, keyword, word_count) ==
    LET count == count_phrase(content_lower, keyword)
    IN  IF count > 0
        THEN IF word_count > 0 /\ word_count <= 100 * count
                /\ 100 * count <= 3 * word_count
             THEN 10
             ELSE IF word_count > 0 THEN 5 ELSE 0
        ELSE 0

keywords_bonus(content, keywords, word_count) ==
    IF keywords # <<>>
    THEN LET keyword_list == keyword_list_lower(keywords)
             content_lower == lower_text(content)
         IN  Sum([i \in 1..Len(keyword_list) |->
                    keyword_bonus(content_lower, keyword_list[i], word_count)])
    ELSE 0

readability_bonus(content, word_count) ==
    LET sentences == sent_tokenize(content)
    IN  IF sentences # <<>>
           /\ 15 * Len(sentences) <= word_count
           /\ word_count <= 25 * Len(sentences)
        THEN 10 ELSE 0

\* The sum before the cap.
seo_points(content, keywords) ==
    LET word_count == Len(word_tokenize(content))
    IN  50 + word_count_bonus(word_count) + headings_bonus(content)
          + paragraphs_bonus(content)
          + keywords_bonus(content, keywords, word_count)
          + readability_bonus(content, word_count)

\* _calculate_seo_score without the final cap.
calculate_seo_score_uncapped(content, keywords) == seo_points(content, keywords)

\* _calculate_seo_score of main.py.
calculate_seo_score(content, keywords) == min(seo_points(content, keywords), 100)

\* _calculate_seo_score of app.py: other bands, no paragraph and no
\* readability bonus, 5 points for each keyword present.
app_word_count_bonus(word_count) ==
    IF word_count > 500 THEN 20
    ELSE IF word_count > 300 THEN 15
    ELSE IF word_count > 150 THEN 10
    ELSE 0

app_headings_bonus(content) ==
    IF count_chars(content, "#") >= 2 THEN 10 ELSE 0

app_keywords_bonus(content, keywords) ==
    IF keywords # <<>>
    THEN LET content_lower == lower_text(content)
             keyword_list == keyword_list_lower(keywords)
         IN  Sum([i \in 1..Len(keyword_list) |->
                    IF count_phrase(content_lower, keyword_list[i]) > 0
                    THEN 5 ELSE 0])
    ELSE 0

app_calculate_seo_score(content, keywords) ==
    min(50 + app_word_count_bonus(Len(word_tokenize(content)))
           + app_headings_bonus(content)
           + app_keywords_bonus(content, keywords), 100)

\* re.sub(r'[^\w\s]', '', sentence.lower()).strip(): the tokens lowered and
\* without punctuation; a token of punctuation alone leaves nothing.
normalize(sentence) ==
    trim(SelectSeq([i \in 1..Len(sentence) |->
                        strip_punctuation(lower(sentence[i]))],
                   LAMBDA w : w # ""))

\* round(unique / total * 100, 2) in hundredths, ties to even.
round2(unique, total) ==
    LET q == (10000 * unique) \div total
        r == (10000 * unique) % total
    IN  IF 2 * r > total THEN q + 1
        ELSE IF 2 * r < total THEN q
        ELSE IF q % 2 = 0 THEN q ELSE q + 1

unique_sentences(sentences) ==
    {normalize(sentences[i]) : i \in
        {j \in 1..Len(sentences) :
            Len(word_tokenize(normalize(sentences[j]))) > 3}}

\* _check_plagiarism without its floor of 85.
check_plagiarism_unfloored(content, tokenizer_ok) ==
    IF ~tokenizer_ok THEN 9500
    ELSE LET sentences == sent_tokenize(content)
         IN  IF sentences = <<>> THEN 10000
             ELSE min(10000, round2(Cardinality(unique_sentences(sentences)),
                                    Len(sentences)))

\* _check_plagiarism (the same code in main.py and app.py).  tokenizer_ok is
\* FALSE when the sentence tokenizer raises; the bare except then returns
\* the default.
check_plagiarism(content, tokenizer_ok) ==
    IF ~tokenizer_ok THEN 9500
    ELSE LET sentences == sent_tokenize(content)
         IN  IF sentences = <<>> THEN 10000
             ELSE max(8500,
                      min(10000,
                          round2(Cardinality(unique_sentences(sentences)),
                                 Len(sentences))))

(***************************************************************************)
(* SpecScore: the two scoring functions applied to texts drawn from        *)
(* bounded families.                                                       *)
(***************************************************************************)
\* The longest text of sentences from the pool, in sentences.
MaxSentences == 3
\* How far beyond a band's threshold the word counts of the model go.
ThresholdMargin == 1


\* Sentences to build small texts of: two that differ, one that repeats the
\* first up to case and punctuation, one too short to count, one that opens a
\* new paragraph.
SentencePool ==
    {<<"The", "cat", "sat", "down", ".">>,
     <<"the", "cat", ",", "sat", "down", "!">>,
     <<"Dogs", "bark", "at", "night", "loudly", ".">>,
     <<"Yes", "it", "is", ".">>,
     <<ParagraphBreak, "#", "Cats", "and", "dogs", "play", ".">>}

RECURSIVE TextsOf(_)
TextsOf(n) ==
    IF n = 0 THEN {<<>>}
    ELSE LET shorter == TextsOf(n - 1)
         IN  shorter \cup {t \o x : t \in shorter, x \in SentencePool}

PoolTexts == TextsOf(MaxSentences)

Repeat(x, n) == [i \in 1..n |-> x]

\* A text of word_count tokens: headings '#' marks, breaks blank lines,
\* sentences sentences, and the keyword "ai" occurrences times.
Doc(headings, breaks, occurrences, sentences, word_count) ==
    Repeat("#", headings) \o Repeat(ParagraphBreak, breaks)
        \o Flatten(Repeat(<<"Yes", ".">>, sentences - 1))
        \o Repeat("ai", occurrences)
        \o Repeat("word", word_count - headings - 2 * (sentences - 1)
                            - occurrences - 1)
        \o <<".">>

WordCountThresholds == {150, 300, 500, 800}

DocWordCounts ==
    {100} \cup {t + d : t \in WordCountThresholds,
                        d \in {-1} \cup 0..ThresholdMargin}

DocShapes ==
    {<<0, 0, 0, 1>>, <<3, 5, 12, 20>>, <<2, 3, 0, 20>>, <<0, 0, 12, 1>>}

KeywordChoices ==
    {<<>>,
     <<<<"ai">>, <<>>, <<"Cat">>>>,
     <<<<"the">>, <<"cat">>, <<"sat">>, <<"down">>, <<"dogs">>, <<"bark">>,
       <<"at">>, <<"night">>, <<"loudly">>, <<"ca">>, <<"sa">>,
       <<"sat", "down">>>>}

ScoreInputs ==
    {ScoreArgs(t, t, k, v, ok) :
        t \in PoolTexts, k \in KeywordChoices, v \in {"main", "app"},
        ok \in BOOLEAN}

\* Pairs of texts of one shape whose word counts differ.
SeoPairInputs ==
    {ScoreArgs(Doc(p[1][1], p[1][2], p[1][3], p[1][4], p[2]),
               Doc(p[1][1], p[1][2], p[1][3], p[1][4], p[3]), k, v, TRUE) :
        p \in {q \in DocShapes \X DocWordCounts \X DocWordCounts :
                  q[2] <= q[3]},
        k \in {<<<<"ai">>, <<>>, <<"Cat">>>>}, v \in {"main", "app"}}

ScoreInit ==
    /\ scoreArgs \in ScoreInputs
    /\ scoreOut = NoScores
    /\ ApiIdle /\ ConcIdle /\ FetchIdle /\ GenIdle

SeoInit ==
    /\ scoreArgs \in SeoPairInputs
    /\ scoreOut = NoScores
    /\ ApiIdle /\ ConcIdle /\ FetchIdle /\ GenIdle

seo_score_of(content, keywords, variant) ==
    IF variant = "app" THEN app_calculate_seo_score(content, keywords)
    ELSE calculate_seo_score(content, keywords)

\* _calculate_seo_score has no handler of its own: a tokenizer that raises
\* makes it raise.
CalculateSeoScore ==
    /\ scoreOut.seo_score = NotComputed /\ ~scoreOut.seo_raised
    /\ scoreArgs.variant # "none"
    /\ IF scoreArgs.tokenizer_ok
       THEN scoreOut' =
               [scoreOut EXCEPT
                  !.seo_score = seo_score_of(scoreArgs.content,
                                    scoreArgs.keywords, scoreArgs.variant),
                  !.other_seo_score = seo_score_of(scoreArgs.other,
                                    scoreArgs.keywords, scoreArgs.variant)]
       ELSE scoreOut' = [scoreOut EXCEPT !.seo_raised = TRUE]
    /\ UNCHANGED <<scoreArgs, apiVars, fetchVars, genVars, concVars>>

CheckPlagiarism ==
    /\ scoreOut.plagiarism_score = NotComputed
    /\ scoreArgs.variant # "none"
    /\ scoreOut' =
          [scoreOut EXCEPT
             !.plagiarism_score = check_plagiarism(scoreArgs.content,
                                                   scoreArgs.tokenizer_ok)]
    /\ UNCHANGED <<scoreArgs, apiVars, fetchVars, genVars, concVars>>

ScoreNext == CalculateSeoScore \/ CheckPlagiarism

SpecScore == ScoreInit /\ [][ScoreNext]_vars

\* SpecSeo: the SEO score of two texts that differ in their word count.
SeoNext == CalculateSeoScore

SpecSeo == SeoInit /\ [][SeoNext]_vars

(***************************************************************************)
(* Properties of the scoring functions (checked under SpecScore, and C8    *)
(* under SpecSeo).                                                         *)
(***************************************************************************)
Scored == scoreOut.seo_score # NotComputed
PlagiarismChecked ==
    scoreOut.plagiarism_score # NotComputed /\ scoreArgs.tokenizer_ok

\* distinct normalized sentences of more than 3 tokens / all sentences x 100,
\* to two decimals, in hundredths.
UniquenessRatio(content) ==
    LET sentences == sent_tokenize(content)
        long == {i \in 1..Len(sentences) :
                    Len(word_tokenize(normalize(sentences[i]))) > 3}
        distinct == Cardinality({normalize(sentences[i]) : i \in long})
        twice == (20000 * distinct) \div Len(sentences)
    IN  IF (20000 * distinct) % Len(sentences) = 0 /\ twice % 4 = 1
        THEN twice \div 2
        ELSE (twice + 1) \div 2

\* Three sentences of more than 3 tokens each, one a verbatim repeat of
\* another.
OneOfThreeRepeated(content) ==
    LET sentences == sent_tokenize(content)
    IN  /\ Len(sentences) = 3
        /\ \A i \in 1..3 : Len(word_tokenize(normalize(sentences[i]))) > 3
        /\ Cardinality({sentences[i] : i \in 1..3}) = 2

\* C6: the uniqueness score is distinct / total x 100 rounded to two
\* decimals with no lower floor, 100 when there are no sentences; three
\* sentences with one repeated verbatim score 66.67.
C6_UniquenessHasNoFloor ==
    PlagiarismChecked =>
        /\ scoreOut.plagiarism_score =
              (IF sent_tokenize(scoreArgs.content) = <<>> THEN 10000
               ELSE UniquenessRatio(scoreArgs.content))
        /\ OneOfThreeRepeated(scoreArgs.content) =>
              scoreOut.plagiarism_score = 6667

\* C6 as amended: the score is that ratio raised to the floor of 85.0, and
\* 100 when there are no sentences; three sentences with one repeated
\* verbatim score 85.0.
C6_UniquenessFlooredAt85 ==
    PlagiarismChecked =>
        /\ scoreOut.plagiarism_score =
              (IF sent_tokenize(scoreArgs.content) = <<>> THEN 10000
               ELSE IF UniquenessRatio(scoreArgs.content) < 8500 THEN 8500
               ELSE UniquenessRatio(scoreArgs.content))
        /\ OneOfThreeRepeated(scoreArgs.content) =>
              scoreOut.plagiarism_score = 8500

C6_Witness ==
    /\ PlagiarismChecked
    /\ OneOfThreeRepeated(scoreArgs.content)
    /\ UniquenessRatio(scoreArgs.content) = 6667
    /\ scoreOut.plagiarism_score = 8500

\* C7: the SEO score is an integer in [0,100] and the uniqueness score a
\* number in [0,100], also when many keywords earn a bonus and when the
\* default is returned after an internal failure.
C7_ScoresInRange ==
    /\ Scored => /\ scoreOut.seo_score \in 0..100
                 /\ scoreOut.other_seo_score \in 0..100
    /\ scoreOut.plagiarism_score # NotComputed =>
          scoreOut.plagiarism_score \in 0..10000

C7_Witness ==
    /\ Scored
    /\ scoreArgs.variant = "main"
    /\ Len(keyword_list_lower(scoreArgs.keywords)) >= 6
    /\ seo_points(scoreArgs.content, scoreArgs.keywords) > 100
    /\ scoreOut.seo_score = 100
    /\ scoreOut.plagiarism_score \in 0..10000

\* The bonuses other than the word-count bonus, per implementation.
OtherBonuses(content) ==
    IF scoreArgs.variant = "app"
    THEN <<app_headings_bonus(content),
           app_keywords_bonus(content, scoreArgs.keywords)>>
    ELSE <<headings_bonus(content), paragraphs_bonus(content),
           keywords_bonus(content, scoreArgs.keywords,
                          Len(word_tokenize(content))),
           readability_bonus(content, Len(word_tokenize(content)))>>

\* C8: with the heading, paragraph, keyword and readability bonuses equal,
\* the text with more words never scores lower, and the score differs only
\* when a threshold (more than 150, 300, 500, 800 words) lies between the two
\* word counts.
C8_SeoMonotoneInWordCount ==
    Scored =>
        LET wc1 == Len(word_tokenize(scoreArgs.content))
            wc2 == Len(word_tokenize(scoreArgs.other))
        IN  (OtherBonuses(scoreArgs.content) = OtherBonuses(scoreArgs.other)
             /\ wc1 <= wc2) =>
                /\ scoreOut.seo_score <= scoreOut.other_seo_score
                /\ (\A t \in {150, 300, 500, 800} : ~(wc1 <= t /\ t < wc2))
                      => scoreOut.seo_score = scoreOut.other_seo_score

C8_Witness ==
    /\ Scored
    /\ scoreArgs.variant = "main"
    /\ Len(word_tokenize(scoreArgs.content)) = 300
    /\ Len(word_tokenize(scoreArgs.other)) = 301
    /\ OtherBonuses(scoreArgs.content) = OtherBonuses(scoreArgs.other)
    /\ readability_bonus(scoreArgs.content, 300) = 10
    /\ scoreOut.other_seo_score = scoreOut.seo_score + 5

(***************************************************************************)
(* Outbound calls.  What a call answers is a record: the call raised       *)
(* (exc), or it got a response with a status and a body.  A body is a      *)
(* tagged value: a JSON value ("null", "int", "str", "list", "object"),    *)
(* an HTML page ("html") or text that is neither ("text").  The text of a  *)
(* JSON string, of a snippet and of the research is a sequence of tokens.  *)
(* A JSON object is the sequence of its members [k, v], in order.          *)
(***************************************************************************)
JObject(members) == [t |-> "object", v |-> members]
Member(key, value) == [k |-> key, v |-> value]
EmptyBody == [t |-> "text", v |-> <<>>]

\* An HTML page: whether BeautifulSoup parses it, and the texts of its
\* a.result__snippet and div.snippet elements, in document order.
Html(parses, a_snippets, div_snippets) ==
    [t |-> "html",
     v |-> [parses |-> parses, a |-> a_snippets, div |-> div_snippets]]

Answer(kind, exc, status, body) ==
    [kind |-> kind, exc |-> exc, status |-> status, body |-> body]

Raised(exc) == Answer("raised", exc, 0, Null)
Responded(status, body) == Answer("response", "none", status, body)

\* len(text): the characters of the tokens, and one space between two
\* tokens that are not whitespace.
gap(text, i) ==
    IF i < Len(text) /\ text[i] \notin WhitespaceTokens
       /\ text[i + 1] \notin WhitespaceTokens
    THEN 1 ELSE 0

len(text) == Sum([i \in 1..Len(text) |-> Len(text[i]) + gap(text, i)])

\* The most tokens, between a and b of them, that the first n characters
\* of the text hold whole (by halves).
RECURSIVE whole_tokens(_, _, _, _)
whole_tokens(text, n, a, b) ==
    IF a = b THEN a
    ELSE LET m == (a + b + 1) \div 2
         IN  IF len(SubSeq(text, 1, m)) <= n
             THEN whole_tokens(text, n, m, b)
             ELSE whole_tokens(text, n, a, m - 1)

\* text[:n]: the tokens the first n characters hold whole, and the part
\* they hold of the next one.
slice_text(text, n) ==
    LET k == whole_tokens(text, n, 0, Len(text))
        whole == SubSeq(text, 1, k)
        left == IF k = 0 THEN n ELSE n - len(whole) - gap(text, k)
    IN  IF k < Len(text) /\ left > 0
        THEN Append(whole, SubSeq(text[k + 1], 1, left))
        ELSE whole

\* value[:n] of a Python value: a string and a list can be sliced, anything
\* else raises TypeError.
slice(value, n) ==
    IF value.t = "str" THEN [exc |-> "none", v |-> JStr(slice_text(value.v, n))]
    ELSE IF value.t = "list"
    THEN [exc |-> "none", v |-> JList(SubSeq(value.v, 1, min(n, Len(value.v))))]
    ELSE [exc |-> "TypeError", v |-> Null]

\* value.get(key, default): only a dict has it.
dict_get(value, key, default) ==
    IF value.t = "object"
    THEN LET found == SelectSeq(value.v, LAMBDA m : m.k = key)
         IN  [exc |-> "none",
              v |-> IF found = <<>> THEN default ELSE found[Len(found)].v]
    ELSE [exc |-> "AttributeError", v |-> Null]

\* key in value: a member of a dict, an element of a list, a substring of a
\* string; anything else raises TypeError.
contains(value, key) ==
    IF value.t = "object"
    THEN [exc |-> "none", v |-> \E i \in 1..Len(value.v) : value.v[i].k = key]
    ELSE IF value.t = "list"
    THEN [exc |-> "none",
          v |-> \E i \in 1..Len(value.v) : value.v[i] = JStr(<<key>>)]
    ELSE IF value.t = "str"
    THEN [exc |-> "none", v |-> count_phrase(value.v, <<key>>) > 0]
    ELSE [exc |-> "TypeError", v |-> FALSE]

\* value[key]: a member of a dict (KeyError without it); a list and a
\* string take no string index.
subscript(value, key) ==
    IF value.t = "object"
    THEN LET found == SelectSeq(value.v, LAMBDA m : m.k = key)
         IN  IF found = <<>> THEN [exc |-> "KeyError", v |-> Null]
             ELSE [exc |-> "none", v |-> found[Len(found)].v]
    ELSE [exc |-> "TypeError", v |-> Null]

(***************************************************************************)
(* fetch_web_data and safe_fetch.  A block of code ends in one of three    *)
(* ways: the function returns v, an exception exc is raised, or control    *)
(* goes on to the next statement.                                          *)
(***************************************************************************)
ExtractLimit == 1000
AppExtractLimit == 800
MinSnippet == 50
MaxResults == 5
max_retries == 3

Return(v) == [kind |-> "return", exc |-> "none", v |-> v]
Raise(exc) == [kind |-> "raise", exc |-> exc, v |-> Null]
GoOn == [kind |-> "next", exc |-> "none", v |-> Null]

\* The classes "except Exception" catches: every exception the calls and
\* the operations on their answers raise.
Exceptions == {"ConnectionError", "Timeout", "HTTPError", "JSONDecodeError",
               "AttributeError", "TypeError", "KeyError", "ParserError"}

\* for page in pages.values(): if 'extract' in page: return
\* page['extract'][:limit]
RECURSIVE first_extract(_, _, _)
first_extract(pages, i, limit) ==
    IF i > Len(pages) THEN GoOn
    ELSE LET page == pages[i].v
             has == contains(page, "extract")
         IN  IF has.exc # "none" THEN Raise(has.exc)
             ELSE IF ~has.v THEN first_extract(pages, i + 1, limit)
             ELSE LET extract == subscript(page, "extract")
                  IN  IF extract.exc # "none" THEN Raise(extract.exc)
                      ELSE LET cut == slice(extract.v, limit)
                           IN  IF cut.exc # "none" THEN Raise(cut.exc)
                               ELSE Return(cut.v)

\* data = response.json(); pages = data.get('query', {}).get('pages', {});
\* then the loop over pages.values().
wiki_extract(answer, limit) ==
    IF answer.body.t \in {"text", "html"} THEN Raise("JSONDecodeError")
    ELSE LET query == dict_get(answer.body, "query", JObject(<<>>))
         IN  IF query.exc # "none" THEN Raise(query.exc)
             ELSE LET pages == dict_get(query.v, "pages", JObject(<<>>))
                  IN  IF pages.exc # "none" THEN Raise(pages.exc)
                      ELSE IF pages.v.t # "object"
                      THEN Raise("AttributeError")
                      ELSE first_extract(pages.v.v, 1, limit)

\* "if html:" for response.text.
html_truthy(body) == body.t = "html" \/ (body.t = "text" /\ body.v # <<>>)

\* The texts longer than MinSnippet characters among the snippets.
snippet_texts(snippets) ==
    SelectSeq([i \in 1..Len(snippets) |-> trim(snippets[i])],
              LAMBDA text : text # <<>> /\ len(text) > MinSnippet)

\* The body of "if html:": the a.result__snippet texts, then the
\* div.snippet texts, the first MaxResults of them joined, or "".
search_results(body) ==
    IF body.t = "html" /\ ~body.v.parses THEN Raise("ParserError")
    ELSE LET results == IF body.t = "html"
                        THEN snippet_texts(body.v.a) \o snippet_texts(body.v.div)
                        ELSE <<>>
         IN  Return(JStr(IF results # <<>>
                         THEN join(SubSeq(results, 1,
                                          min(MaxResults, Len(results))))
                         ELSE <<>>))

\* The f-string of the fallback, its lines broken where the source breaks
\* them.
fallback_content(query) ==
    <<LineBreak>> \o query
        \o <<"is", "an", "important", "topic", "in", "today", "'s", "world",
             ".", "Many", "experts", "are", "discussing", LineBreak,
             "the", "implications", "and", "applications", "of">>
        \o query
        \o <<".", "Research", "shows", "that", "understanding", LineBreak>>
        \o query
        \o <<"can", "lead", "to", "better", "outcomes", "in", "various",
             "fields", ".", "The", "key", "aspects", "include", LineBreak,
             "implementation", "strategies", ",", "benefits", ",", "and",
             "future", "trends", ".", LineBreak>>

(***************************************************************************)
(* The answers the outbound calls are driven with.                         *)
(***************************************************************************)
\* How many times the three sentences are repeated in the long extract.
ExtractRepeats == 6

ExtractSentences ==
    <<<<"Artificial", "intelligence", "is", "important", "in", "modern",
        "computing", "systems", "everywhere", ".">>,
      <<"It", "powers", "search", "engines", "and", "many", "recommendation",
        "systems", "today", ".">>,
      <<"Researchers", "study", "how", "machines", "can", "learn", "from",
        "large", "data", "sets", ".">>>>

ShortExtract == ExtractSentences[1]
Extract == Flatten(ExtractSentences)
LongExtract == Flatten(Repeat(Extract, ExtractRepeats))

\* Snippets of 50 and of 51 characters.
Snippet50 ==
    <<"Learn", "how", "these", "model", "are", "trained", "and", "used",
      "today", ".">>
Snippet51 ==
    <<"Learn", "how", "these", "models", "are", "trained", "and", "used",
      "today", ".">>

Topics == {<<"AI">>, <<>>}

WikiBody(pages) ==
    JObject(<<Member("query", JObject(<<Member("pages", pages)>>))>>)

OnePage(page) == WikiBody(JObject(<<Member("1", page)>>))

PageWith(extract) == JObject(<<Member("extract", extract)>>)

MissingPage == JObject(<<Member("missing", JStr(<<>>))>>)

ExtractValues ==
    {JStr(<<>>), JStr(ShortExtract), JStr(Extract), JStr(LongExtract),
     JList(<<JStr(<<"a">>)>>), Null, JInt(5), JObject(<<>>)}

WikiBodies ==
    {EmptyBody, [t |-> "text", v |-> <<"Service", "Unavailable">>],
     Html(TRUE, <<>>, <<>>),
     Null, JList(<<>>), JInt(5), JObject(<<>>),
     JObject(<<Member("query", Null)>>),
     WikiBody(JList(<<>>)), WikiBody(JObject(<<>>)),
     OnePage(MissingPage), OnePage(JInt(5)),
     OnePage(JStr(<<"extract">>)), OnePage(JStr(<<"other">>)),
     OnePage(JList(<<JStr(<<"extract">>)>>)),
     WikiBody(JObject(<<Member("-1", MissingPage),
                        Member("2", PageWith(JStr(ShortExtract)))>>))}
    \cup {OnePage(PageWith(e)) : e \in ExtractValues}

SearchPages ==
    {Html(FALSE, <<>>, <<>>), Html(TRUE, <<>>, <<>>),
     Html(TRUE, <<Snippet50>>, <<>>),
     Html(TRUE, <<Snippet50>>, <<<<LineBreak>> \o Snippet51 \o <<LineBreak>>>>),
     Html(TRUE, Repeat(ExtractSentences[2], MaxResults + 1),
          <<ExtractSentences[3]>>)}

\* The network: "down" when every outbound call fails, "up" when Wikipedia
\* answers with a page that has an extract, "search" when it has no page
\* and the search fails or answers with a page of results, "any" for every
\* answer.
WikiAnswers(network) ==
    IF network = "up"
    THEN {Responded(200, OnePage(PageWith(e))) :
            e \in {JStr(Extract), JList(<<JStr(<<"a">>)>>)}}
    ELSE IF network = "search"
    THEN {Responded(200, OnePage(MissingPage))}
    ELSE {Raised("ConnectionError"), Raised("Timeout")}
            \cup IF network = "down" THEN {}
                 ELSE {Responded(200, b) : b \in WikiBodies}
                        \cup {Responded(503, EmptyBody)}

SearchAnswers(network) ==
    IF network = "search"
    THEN {Raised("ConnectionError"),
          Responded(200, Html(TRUE, Repeat(ExtractSentences[2], MaxResults + 1),
                              <<ExtractSentences[3]>>))}
    ELSE {Raised("ConnectionError"), Responded(503, Html(TRUE, <<>>, <<>>))}
            \cup IF network = "down" THEN {}
                 ELSE {Responded(200, b) : b \in SearchPages \cup {EmptyBody}}

(***************************************************************************)
(* SpecFetch: one call of fetch_web_data, of main.py or of app.py, one     *)
(* outbound call at a time.                                                *)
(***************************************************************************)
FetchInputs ==
    {FetchIn(variant, query, "any") : variant \in {"main", "app"},
                                      query \in Topics}

\* The state on entry of fetch_web_data.
FetchEntry(in) ==
    /\ fpc = "wiki"
    /\ fetchIn = in
    /\ fattempt = 0
    /\ fhtml = NoHtml
    /\ fresearch = NoResearch
    /\ flog = <<>>

FetchInit ==
    /\ \E in \in FetchInputs : FetchEntry(in)
    /\ ApiIdle /\ ConcIdle /\ ScoreIdle /\ GenIdle

\* response = requests.get(wiki_url, params=params, timeout=10)
WikiRequest ==
    /\ fpc = "wiki"
    /\ \E answer \in WikiAnswers(fetchIn.network) :
          /\ fhtml' = answer
          /\ flog' = Append(flog, IF answer.kind = "raised"
                                  THEN "wiki_failed" ELSE "wiki")
    /\ fpc' = "extract"
    /\ UNCHANGED <<fetchIn, fattempt, fresearch>>
    /\ UNCHANGED <<apiVars, scoreVars, genVars, concVars>>

\* The rest of the try block up to the loop over the pages, with the except
\* clause: main.py goes on to the search and to the fallback, app.py
\* returns "".
fetch_extract(variant, answer) ==
    IF answer.kind = "raised" THEN Raise(answer.exc)
    ELSE wiki_extract(answer, IF variant = "main" THEN ExtractLimit
                              ELSE AppExtractLimit)

WikiExtract ==
    /\ fpc = "extract"
    /\ LET o == fetch_extract(fetchIn.variant, fhtml)
       IN  IF o.kind = "return"
           THEN fpc' = "returned" /\ fresearch' = o.v
           ELSE IF o.kind = "raise" /\ o.exc \notin Exceptions
           THEN fpc' = "raised" /\ fresearch' = fresearch
           ELSE IF fetchIn.variant = "app"
           THEN fpc' = "returned" /\ fresearch' = JStr(<<>>)
           ELSE /\ fpc' = IF o.kind = "raise" THEN "fallback" ELSE "safe_fetch"
                /\ fresearch' = fresearch
    /\ UNCHANGED <<fetchIn, fattempt, fhtml, flog>>
    /\ UNCHANGED <<apiVars, scoreVars, genVars, concVars>>

\* One iteration of the loop of safe_fetch: the body is returned, or the
\* exception is caught and the loop sleeps; after the last iteration "" is
\* returned.
SafeFetchAttempt ==
    /\ fpc = "safe_fetch"
    /\ fattempt < max_retries
    /\ \E answer \in SearchAnswers(fetchIn.network) :
          IF answer.kind = "response" /\ answer.status < 400
          THEN /\ fhtml' = answer
               /\ flog' = Append(flog, "search")
               /\ fpc' = "results"
               /\ fattempt' = fattempt
          ELSE /\ flog' = flog \o <<"search_failed", "sleep">>
               /\ fattempt' = fattempt + 1
               /\ IF fattempt + 1 = max_retries
                  THEN fhtml' = Responded(0, EmptyBody) /\ fpc' = "results"
                  ELSE fhtml' = answer /\ fpc' = "safe_fetch"
    /\ UNCHANGED <<fetchIn, fresearch>>
    /\ UNCHANGED <<apiVars, scoreVars, genVars, concVars>>

\* "if html:" and its body, with the except clause.
SearchResults ==
    /\ fpc = "results"
    /\ IF ~html_truthy(fhtml.body)
       THEN fpc' = "fallback" /\ fresearch' = fresearch
       ELSE LET o == search_results(fhtml.body)
            IN  IF o.kind = "return"
                THEN fpc' = "returned" /\ fresearch' = o.v
                ELSE IF o.exc \in Exceptions
                THEN fpc' = "fallback" /\ fresearch' = fresearch
                ELSE fpc' = "raised" /\ fresearch' = fresearch
    /\ UNCHANGED <<fetchIn, fattempt, fhtml, flog>>
    /\ UNCHANGED <<apiVars, scoreVars, genVars, concVars>>

\* "Fallback: Generate basic content".
Fallback ==
    /\ fpc = "fallback"
    /\ fresearch' = JStr(fallback_content(fetchIn.query))
    /\ fpc' = "returned"
    /\ UNCHANGED <<fetchIn, fattempt, fhtml, flog>>
    /\ UNCHANGED <<apiVars, scoreVars, genVars, concVars>>

FetchNext ==
    WikiRequest \/ WikiExtract \/ SafeFetchAttempt \/ SearchResults \/ Fallback

SpecFetch == FetchInit /\ [][FetchNext]_vars

(***************************************************************************)
(* Claims about fetch_web_data.                                            *)
(***************************************************************************)
\* C4: fetch_web_data never raises: for every topic and every outcome of the
\* outbound calls (network error, timeout, non-JSON body, unexpected JSON
\* shape, HTML parse error) it returns a string, possibly empty.
C4_FetchReturnsString ==
    /\ fpc # "raised"
    /\ fpc = "returned" => fresearch.t = "str"

\* A tier produced usable text: it returned a non-empty string.
usable(o) == o.kind = "return" /\ o.v.t = "str" /\ o.v.v # <<>>

\* The outbound calls of safe_fetch in the log.
Attempts == {"search", "search_failed"}

\* C13: fetch_web_data of main.py tries its tiers in the order primary,
\* secondary, synthesized: the search is attempted exactly when the primary
\* produced no usable text (also when it raised a network or parse
\* exception), the synthesized text is used exactly when the search
\* produced no usable text either, and no tier is entered after an earlier
\* one produced usable text.
C13_TiersInOrder ==
    [][fetchIn.variant = "main" =>
        /\ fpc = "extract" =>
              (fpc' = "safe_fetch" <=> ~usable(fetch_extract("main", fhtml)))
        /\ fpc = "results" =>
              (fpc' = "fallback" <=>
                  ~(html_truthy(fhtml.body)
                        /\ usable(search_results(fhtml.body))))
        /\ fpc' = "safe_fetch" => fpc \in {"extract", "safe_fetch"}
        /\ fpc' = "fallback" => fpc = "results"]_vars

\* C14: fetch_web_data of main.py never returns the empty string: when
\* neither the primary nor the search yields non-empty text, the value
\* returned is the synthesized paragraph that mentions the topic.
C14_NeverReturnsEmpty ==
    (fpc = "returned" /\ fetchIn.variant = "main") =>
        /\ fresearch # JStr(<<>>)
        /\ (\A i \in 1..Len(flog) : flog[i] \notin {"wiki", "search"}) =>
              fresearch = JStr(fallback_content(fetchIn.query))

\* C15: safe_fetch makes at most max_retries attempts, makes no attempt
\* after a successful one and returns its body, returns "" once all
\* attempts have failed, and sleeps only between a failed attempt and the
\* next attempt: once it has returned, every sleep in the log is followed
\* by an attempt.
C15_SafeFetchRetries ==
    LET attempts == SelectSeq(flog, LAMBDA e : e \in Attempts)
    IN  /\ Len(attempts) <= max_retries
        /\ \A i \in 1..Len(attempts) :
              attempts[i] = "search" => i = Len(attempts)
        /\ fpc = "results" =>
              IF attempts[Len(attempts)] = "search"
              THEN fhtml.kind = "response" /\ fhtml.status < 400
              ELSE Len(attempts) = max_retries /\ fhtml.body = EmptyBody
        /\ fpc \notin {"safe_fetch"} =>
              \A i \in 1..Len(flog) :
                  flog[i] = "sleep" =>
                      i < Len(flog) /\ flog[i + 1] \in Attempts

(***************************************************************************)
(* generate_content of main.py.  The topic is the sequence of its words,   *)
(* the keywords string the sequence of its comma-separated items, each the *)
(* sequence of its words.  The texts of the templates are written as the   *)
(* word tokenizer separates them.  A stage returns [exc, v]: the exception *)
(* it raised, or its text.                                                 *)
(***************************************************************************)
Letters == CharSet(UpperLetters) \cup CharSet(LowerLetters)

\* str.title() of one token: the first letter of each run of letters in
\* upper case, the others in lower case.
RECURSIVE title_from(_, _)
title_from(w, after_letter) ==
    IF w = "" THEN ""
    ELSE LET c == SubSeq(w, 1, 1)
         IN  (IF c \notin Letters THEN c
              ELSE IF after_letter
              THEN (IF c \in DOMAIN LowerChar THEN LowerChar[c] ELSE c)
              ELSE (IF c \in DOMAIN UpperChar THEN UpperChar[c] ELSE c))
                \o title_from(SubSeq(w, 2, Len(w)), c \in Letters)

title(text) == [i \in 1..Len(text) |-> title_from(text[i], FALSE)]

\* seq[:n] of a Python list, for any integer n.
slice_to(seq, n) ==
    IF n >= 0 THEN SubSeq(seq, 1, min(n, Len(seq)))
    ELSE SubSeq(seq, 1, max(Len(seq) + n, 0))

\* "if research:".
research_truthy(research) == research.v # <<>>

title_options(topic) ==
    <<<<"#">> \o topic \o <<":", "A", "Comprehensive", "Guide">>,
      <<"#", "Understanding">> \o topic \o <<"in", "Modern", "Context">>,
      <<"#", "The", "Complete", "Guide", "to">> \o topic>>

intro_templates(topic) ==
    <<<<"In", "the", "rapidly", "evolving", "digital", "landscape", ",">>
        \o topic
        \o <<"has", "emerged", "as", "a", "critical", "component", "for",
             "success", ".">>,
      <<"The", "significance", "of">> \o topic
        \o <<"can", "not", "be", "overstated", "in", "today", "'s",
             "interconnected", "world", ".">>,
      <<"As", "technology", "continues", "to", "advance", ",">> \o topic
        \o <<"plays", "an", "increasingly", "vital", "role", "across",
             "various", "sectors", ".">>>>

Section(heading, template) == [title |-> heading, template |-> template]

section_templates(topic) ==
    <<Section(<<"Benefits", "and", "Advantages">>,
              <<"The", "primary", "benefits", "of">> \o topic
                \o <<"include", "increased", "efficiency", ",", "improved",
                     "outcomes", ",", "and", "enhanced", "capabilities",
                     ".">>),
      Section(<<"Implementation", "Strategies">>,
              <<"Successful", "implementation", "of">> \o topic
                \o <<"requires", "careful", "planning", ",", "proper",
                     "resources", ",", "and", "ongoing", "evaluation", ".">>),
      Section(<<"Common", "Challenges">>,
              <<"While">> \o topic
                \o <<"offers", "many", "advantages", ",", "organizations",
                     "may", "face", "challenges", "such", "as", "adoption",
                     "barriers", "and", "technical", "requirements", ".">>),
      Section(<<"Future", "Outlook">>,
              <<"Looking", "ahead", ",">> \o topic
                \o <<"is", "poised", "for", "continued", "growth", "and",
                     "innovation", ",", "with", "new", "developments",
                     "emerging", "regularly", ".">>),
      Section(<<"Practical", "Applications">>,
              <<"In", "practice", ",">> \o topic
                \o <<"finds", "applications", "across", "various", "domains",
                     "including", "business", ",", "education", ",", "and",
                     "healthcare", ".">>)>>

\* "Add research snippet if available": the first sentence of the research.
intro_snippet(research) ==
    IF research_truthy(research)
    THEN LET sentences == sent_tokenize(research.v)
         IN  IF sentences # <<>> THEN sentences[1] ELSE <<>>
    ELSE <<>>

\* "Expand template with research if available": the second and third
\* sentence of a research longer than 100 characters.
research_extra(research) ==
    IF research_truthy(research) /\ len(research.v) > 100
    THEN LET research_sentences == sent_tokenize(research.v)
         IN  IF Len(research_sentences) > 2
             THEN join(SubSeq(research_sentences, 2, 3))
             ELSE <<>>
    ELSE <<>>

Numerals == <<"1.", "2.", "3.", "4.", "5.", "6.">>
MaxKeywords == 6

\* f"**{keyword.title()}**"
bold(text) ==
    IF text = <<>> THEN <<"****">>
    ELSE [i \in 1..Len(text) |->
            (IF i = 1 THEN "**" ELSE "") \o text[i]
                \o (IF i = Len(text) THEN "**" ELSE "")]

\* The "Key Concepts" section, or nothing when no keyword is left.
key_concepts(topic, keywords) ==
    LET keyword_list == SelectSeq(keywords, LAMBDA k : k # <<>>)
        shown == slice_to(keyword_list, MaxKeywords)
    IN  IF keywords # <<>> /\ keyword_list # <<>>
        THEN <<"#", "#", "Key", "Concepts", LineBreak>>
                \o Flatten([i \in 1..Len(shown) |->
                      <<Numerals[i]>> \o bold(title(shown[i]))
                        \o <<":", "An", "essential", "aspect", "of">>
                        \o lower_text(topic) \o <<".">>])
                \o <<ParagraphBreak>>
        ELSE <<>>

conclusion(topic) ==
    <<"#", "#", "Conclusion", LineBreak, "In", "summary", ",">> \o topic
        \o <<"represents", "a", "significant", "area", "of", "focus", "with",
             "substantial", "implications", ".", "By", "understanding",
             "and", "effectively", "leveraging">>
        \o lower_text(topic)
        \o <<",", "individuals", "and", "organizations", "can", "achieve",
             "meaningful", "progress", ".", "As", "the", "field",
             "continues", "to", "evolve", ",", "staying", "informed",
             "about", "developments", "in">>
        \o lower_text(topic)
        \o <<"will", "remain", "essential", ".", ParagraphBreak>>

\* The random draws of the builder: the title, the introduction and the
\* three sections.
Draw(title_choice, intro_choice, selected_sections) ==
    [title |-> title_choice, intro |-> intro_choice,
     sections |-> selected_sections]

\* _create_content_structure; sent_tokenize raises TypeError on a research
\* that is no string.
create_content_structure(topic, keywords, research, tone, draw) ==
    IF research_truthy(research) /\ research.t # "str"
    THEN [exc |-> "TypeError", v |-> <<>>]
    ELSE [exc |-> "none",
          v |-> title_options(topic)[draw.title] \o <<ParagraphBreak>>
                \o <<"#", "#", "Introduction", LineBreak>>
                \o intro_templates(topic)[draw.intro]
                \o intro_snippet(research) \o <<ParagraphBreak>>
                \o key_concepts(topic, keywords)
                \o Flatten([i \in 1..Len(draw.sections) |->
                      LET section == section_templates(topic)[draw.sections[i]]
                      IN  <<"#", "#">> \o section.title \o <<LineBreak>>
                            \o section.template \o research_extra(research)
                            \o <<ParagraphBreak>>])
                \o conclusion(topic)]

\* The end of _adjust_length on both paths: the first target_words words
\* joined by spaces, split into sentences, joined again.
trim_to(words, target_words) ==
    LET trimmed_text == slice_to(words, target_words)
        sentences == sent_tokenize(trimmed_text)
    IN  IF sentences # <<>> THEN join(sentences) ELSE trimmed_text

filler_templates ==
    <<<<"This", "demonstrates", "the", "practical", "value", "and",
        "application", "potential", ".">>,
      <<"Many", "industry", "experts", "recognize", "these", "patterns",
        "and", "trends", ".">>,
      <<"The", "evidence", "consistently", "supports", "these",
        "observations", "and", "conclusions", ".">>,
      <<"Further", "research", "and", "development", "continues", "to",
        "expand", "our", "understanding", ".">>,
      <<"Real-world", "implementations", "have", "shown", "promising",
        "results", "and", "outcomes", ".">>>>

\* "content += filler" without the filler, for comparison.
add_nothing(content, f) == content

\* "content += filler" for the f-th filler.
add_filler(content, f) == content \o filler_templates[f]

\* re.sub(r'\bold\b', new, text, flags=re.IGNORECASE) from the i-th token
\* on, for a pattern of whole words separated by single spaces.
matches_at(text, i, old) ==
    /\ i + Len(old) - 1 <= Len(text)
    /\ \A j \in 1..Len(old) : lower(text[i + j - 1]) = old[j]

\* The matches replaced: from left to right, those that do not overlap an
\* earlier one.
RECURSIVE replaced_at(_, _, _, _)
replaced_at(starts, k, width, free) ==
    IF k > Len(starts) THEN {}
    ELSE IF starts[k] >= free
    THEN {starts[k]} \cup replaced_at(starts, k + 1, width, starts[k] + width)
    ELSE replaced_at(starts, k + 1, width, free)

sub_words(text, old, new) ==
    LET starts == SelectSeq([i \in 1..Len(text) |-> i],
                            LAMBDA i : matches_at(text, i, old))
        replaced == replaced_at(starts, 1, Len(old), 1)
    IN  Flatten([i \in 1..Len(text) |->
            IF i \in replaced THEN new
            ELSE IF \E j \in replaced : j < i /\ i < j + Len(old) THEN <<>>
            ELSE <<text[i]>>])

Replacement(old, new) == [old |-> old, new |-> new]

replacements ==
    <<Replacement(<<"is", "important">>, <<"plays", "a", "crucial", "role">>),
      Replacement(<<"very", "good">>, <<"exceptionally", "beneficial">>),
      Replacement(<<"many", "people">>, <<"numerous", "individuals">>),
      Replacement(<<"in", "order", "to">>, <<"to">>),
      Replacement(<<"due", "to", "the", "fact", "that">>, <<"because">>),
      Replacement(<<"utilize">>, <<"use">>),
      Replacement(<<"facilitate">>, <<"help">>),
      Replacement(<<"optimal">>, <<"best">>),
      Replacement(<<"commence">>, <<"begin">>),
      Replacement(<<"terminate">>, <<"end">>)>>

\* "Replace robotic phrases": the patterns one after the other.
RECURSIVE replace_robotic(_, _)
replace_robotic(text, k) ==
    IF k > Len(replacements) THEN text
    ELSE LET r == replacements[k]
             found == \E i \in 1..Len(text) : matches_at(text, i, r.old)
         IN  replace_robotic(IF found THEN sub_words(text, r.old, r.new)
                             ELSE text, k + 1)

\* w.replace(old, new) within one token.
RECURSIVE replace_in(_, _, _)
replace_in(w, old, new) ==
    IF Len(w) < Len(old) THEN w
    ELSE IF SubSeq(w, 1, Len(old)) = old
    THEN new \o replace_in(SubSeq(w, Len(old) + 1, Len(w)), old, new)
    ELSE SubSeq(w, 1, 1) \o replace_in(SubSeq(w, 2, Len(w)), old, new)

tone_replacements(tone) ==
    IF tone = "casual"
    THEN <<Replacement("therefore", "so"), Replacement("however", "but"),
           Replacement("individuals", "people"),
           Replacement("organizations", "companies"),
           Replacement("methodologies", "methods"),
           Replacement("utilize", "use")>>
    ELSE IF tone = "academic"
    THEN <<Replacement("so", "therefore"), Replacement("but", "however"),
           Replacement("get", "obtain"), Replacement("make", "construct"),
           Replacement("show", "demonstrate"),
           Replacement("think", "postulate")>>
    ELSE IF tone = "creative"
    THEN <<Replacement("important", "pivotal"), Replacement("good", "remarkable"),
           Replacement("big", "substantial"), Replacement("small", "modest"),
           Replacement("change", "transformation")>>
    ELSE <<>>

RECURSIVE replace_all(_, _, _)
replace_all(w, pairs, k) ==
    IF k > Len(pairs) THEN w
    ELSE replace_all(IF count_in(w, pairs[k].old) > 0
                     THEN replace_in(w, pairs[k].old, pairs[k].new) ELSE w,
                     pairs, k + 1)

\* "Replace robotic phrases" and "Adjust for tone".
humanize_words(text, tone) ==
    LET humanized == replace_robotic(text, 1)
        pairs == tone_replacements(tone)
    IN  [i \in 1..Len(humanized) |-> replace_all(humanized[i], pairs, 1)]

transitions ==
    <<<<"Moreover", ",">>, <<"Additionally", ",">>, <<"Furthermore", ",">>,
      <<"Consequently", ",">>>>

\* "Add some sentence variety": picks[i] is 0 when random.random() is at
\* most 0.7 for sentence i, or the index of the transition chosen for it.
add_transitions(sentences, picks) ==
    IF Len(sentences) > 3
    THEN [i \in 1..Len(sentences) |->
            IF i > 1 /\ i < Len(sentences) /\ picks[i] # 0
            THEN transitions[picks[i]] \o sentences[i]
            ELSE sentences[i]]
    ELSE sentences

\* _humanize_content on a text whose robotic phrases and tone are done.
humanize_sentences(humanized, picks) ==
    join(add_transitions(sent_tokenize(humanized), picks))

\* re.sub(r'\n\s*\n', '\n\n', content): whitespace holding two line breaks
\* or more becomes one blank line.
collapse_breaks(text) ==
    Flatten([i \in 1..Len(text) |->
        IF text[i] \notin WhitespaceTokens THEN <<text[i]>>
        ELSE IF i > 1 /\ text[i - 1] \in WhitespaceTokens THEN <<>>
        ELSE IF text[i] = ParagraphBreak
                \/ (i < Len(text) /\ text[i + 1] \in WhitespaceTokens)
        THEN <<ParagraphBreak>>
        ELSE <<LineBreak>>])

emphasis_words == {"important", "crucial", "essential", "key"}

\* "Add emphasis to important points": in each line, the first word that
\* is one of the emphasis words is put between ** and **.
add_emphasis(text) ==
    LET found == SelectSeq([i \in 1..Len(text) |-> i],
                           LAMBDA i : lower(text[i]) \in emphasis_words)
        first == {found[k] : k \in {m \in 1..Len(found) :
                    m = 1 \/ \E j \in found[m - 1]..found[m] :
                                text[j] \in WhitespaceTokens}}
    IN  [i \in 1..Len(text) |->
            IF i \in first THEN "**" \o text[i] \o "**" ELSE text[i]]

format_content(text) == add_emphasis(collapse_breaks(text))

(***************************************************************************)
(* SpecGen: one call of generate_content of main.py, stage by stage, the   *)
(* research stage one outbound call at a time.                             *)
(***************************************************************************)
\* The most sentences that receive a transition in one call.
MaxTransitions == 1
\* A target length some fillers beyond the length of the built content.
PadLength == 225

Keywords == <<<<"ai">>, <<"machine", "learning">>>>

\* The calls of generate_content: the arguments, and the network they meet.
GenCall(topic, keywords, tone, length, network) ==
    [args |-> GenArgs(topic, keywords, tone, length), network |-> network]

GenCalls ==
    {GenCall(<<"AI">>, <<>>, "professional", MinLength, network) :
        network \in {"down", "up", "search"}}
    \cup {GenCall(<<"AI">>, Keywords, "casual", MinLength, network) :
            network \in {"down", "up"}}
    \cup {GenCall(<<"AI">>, Keywords, "creative", 0, "down"),
          GenCall(<<"AI">>, <<>>, "academic", PadLength, "down")}

DrawChoices ==
    {Draw(1, 1, <<1, 2, 3>>), Draw(2, 2, <<4, 3, 5>>), Draw(3, 3, <<5, 1, 4>>)}

\* The outcomes of random.random() and random.choice(transitions) for n
\* sentences: at most k of them receive a transition.
RECURSIVE PicksUpTo(_, _)
PicksUpTo(n, k) ==
    IF k = 0 \/ n <= 3 THEN {[i \in 1..n |-> 0]}
    ELSE LET fewer == PicksUpTo(n, k - 1)
         IN  fewer \cup {[p EXCEPT ![i] = t] :
                            p \in fewer, i \in 2..(n - 1),
                            t \in 1..Len(transitions)}

\* The steps of generate_content with "Step 5: Format" left out, for
\* comparison.
steps_without_format ==
    <<"fetch", "build", "adjust", "humanize", "score">>

\* The steps of generate_content, in the order of its statements.
steps == <<"fetch", "build", "adjust", "humanize", "format", "score">>

\* The statement reached when a step has returned: the next step, or the
\* return.
step_after(step) ==
    LET i == CHOOSE k \in 1..Len(steps) : steps[k] = step
    IN  IF i < Len(steps) THEN steps[i + 1] ELSE "done"

\* "Step 6: Calculate metrics" and the dictionary returned.
metrics(content, keywords) ==
    [success |-> TRUE,
     content |-> content,
     word_count |-> Len(word_tokenize(content)),
     seo_score |-> calculate_seo_score(content, keywords),
     plagiarism_score |-> check_plagiarism(content, TRUE)]

GenInit ==
    /\ gpc = steps[1]
    /\ gcontent = <<>>
    /\ gresult = NoResult
    /\ gfillers = <<>>
    /\ \E call \in GenCalls :
          /\ genArgs = call.args
          /\ FetchEntry(FetchIn("main", call.args.topic, call.network))
    /\ ApiIdle /\ ConcIdle /\ ScoreIdle

\* "Step 1: Research": fetch_web_data has returned, or has raised.
Research ==
    /\ gpc = "fetch"
    /\ fpc \in {"returned", "raised"}
    /\ gpc' = IF fpc = "returned" THEN step_after("fetch") ELSE "raised"
    /\ UNCHANGED <<genArgs, gcontent, gresult, gfillers>>
    /\ UNCHANGED <<apiVars, scoreVars, fetchVars, concVars>>

\* "Step 2: Create content structure".
Build ==
    /\ gpc = "build"
    /\ \E draw \in DrawChoices :
          LET r == create_content_structure(genArgs.topic, genArgs.keywords,
                                            fresearch, genArgs.tone, draw)
          IN  IF r.exc = "none"
              THEN gpc' = step_after("build") /\ gcontent' = r.v
              ELSE gpc' = "raised" /\ gcontent' = gcontent
    /\ UNCHANGED <<genArgs, gresult, gfillers>>
    /\ UNCHANGED <<apiVars, scoreVars, fetchVars, concVars>>

\* "Step 3: Adjust length", up to the loop: the trim path, or on to the
\* padding.
Adjust ==
    /\ gpc = "adjust"
    /\ LET words == word_tokenize(gcontent)
       IN  IF Len(words) >= genArgs.length
           THEN /\ gpc' = step_after("adjust")
                /\ gcontent' = trim_to(words, genArgs.length)
           ELSE gpc' = "pad" /\ gcontent' = gcontent
    /\ UNCHANGED <<genArgs, gresult, gfillers>>
    /\ UNCHANGED <<apiVars, scoreVars, fetchVars, concVars>>

\* One iteration of "while len(words) < target_words".
Pad ==
    /\ gpc = "pad"
    /\ Len(word_tokenize(gcontent)) < genArgs.length
    /\ \E f \in 1..Len(filler_templates) :
          /\ gcontent' = add_filler(gcontent, f)
          /\ gfillers' = Append(gfillers, f)
    /\ UNCHANGED <<gpc, genArgs, gresult>>
    /\ UNCHANGED <<apiVars, scoreVars, fetchVars, concVars>>

\* The loop ends: "Trim to exact length".
PadTrim ==
    /\ gpc = "pad"
    /\ LET words == word_tokenize(gcontent)
       IN  /\ Len(words) >= genArgs.length
           /\ gcontent' = trim_to(words, genArgs.length)
    /\ gpc' = step_after("adjust")
    /\ UNCHANGED <<genArgs, gresult, gfillers>>
    /\ UNCHANGED <<apiVars, scoreVars, fetchVars, concVars>>

\* "Step 4: Humanize", the replacements.
HumanizeWords ==
    /\ gpc = "humanize"
    /\ gcontent' = humanize_words(gcontent, genArgs.tone)
    /\ gpc' = "vary"
    /\ UNCHANGED <<genArgs, gresult, gfillers>>
    /\ UNCHANGED <<apiVars, scoreVars, fetchVars, concVars>>

\* "Step 4: Humanize", the sentence variety, with a transition given to at
\* most k sentences.
Vary(k) ==
    /\ gpc = "vary"
    /\ \E picks \in PicksUpTo(Len(sent_tokenize(gcontent)), k) :
          gcontent' = humanize_sentences(gcontent, picks)
    /\ gpc' = step_after("humanize")
    /\ UNCHANGED <<genArgs, gresult, gfillers>>
    /\ UNCHANGED <<apiVars, scoreVars, fetchVars, concVars>>

\* "Step 5: Format".
Format ==
    /\ gpc = "format"
    /\ gcontent' = format_content(gcontent)
    /\ gpc' = step_after("format")
    /\ UNCHANGED <<genArgs, gresult, gfillers>>
    /\ UNCHANGED <<apiVars, scoreVars, fetchVars, concVars>>

\* "Step 6: Calculate metrics", and the return.
Metrics ==
    /\ gpc = "score"
    /\ gresult' = metrics(gcontent, genArgs.keywords)
    /\ gpc' = step_after("score")
    /\ UNCHANGED <<genArgs, gcontent, gfillers>>
    /\ UNCHANGED <<apiVars, scoreVars, fetchVars, concVars>>

HumanizeSentences == Vary(MaxTransitions)

GenNext ==
    \/ FetchNext
    \/ Research \/ Build \/ Adjust \/ Pad \/ PadTrim
    \/ HumanizeWords \/ HumanizeSentences \/ Format \/ Metrics

SpecGen == GenInit /\ [][GenNext]_vars

(***************************************************************************)
(* SpecPad: one call of _adjust_length of main.py on a short text, one    *)
(* iteration of its loop at a time.  The call is sequential code: a step   *)
(* that can run does run.                                                  *)
(***************************************************************************)
\* The largest target length of these calls.
MaxPadTarget == 20

PadTargets == {0, 1, 12, MaxPadTarget}

PadTexts ==
    {<<>>, <<"AI">>, ShortExtract,
     <<"#", "AI", ParagraphBreak>> \o Extract \o <<ParagraphBreak>>}

PadInit ==
    /\ gpc = "adjust"
    /\ gcontent \in PadTexts
    /\ \E target_words \in PadTargets :
          genArgs = GenArgs(<<"AI">>, <<>>, "professional", target_words)
    /\ gresult = NoResult
    /\ gfillers = <<>>
    /\ ApiIdle /\ ConcIdle /\ ScoreIdle /\ FetchIdle

PadNext == Adjust \/ Pad \/ PadTrim

SpecPad == PadInit /\ [][PadNext]_vars /\ WF_vars(PadNext)

(***************************************************************************)
(* SpecVary: one call of _humanize_content of main.py on a text of a few   *)
(* sentences, with every outcome of the random draws.                      *)
(***************************************************************************)
\* The most sentences of these texts.
MaxVarySentences == 5

VarySentences ==
    ExtractSentences
        \o <<<<"This", "is", "important", "!">>,
              <<"Many", "people", "utilize", "it", ".">>>>

VaryTexts ==
    {Flatten(SubSeq(VarySentences, 1, n)) : n \in 0..MaxVarySentences}
        \cup {<<"No", "terminator">>,
              <<"#", "AI", ParagraphBreak>> \o Flatten(ExtractSentences)
                    \o <<LineBreak, "Many", "people", "agree">>}

VaryInit ==
    /\ gpc = "humanize"
    /\ gcontent \in VaryTexts
    /\ \E tone \in {"professional", "casual"} :
          genArgs = GenArgs(<<"AI">>, <<>>, tone, MinLength)
    /\ gresult = NoResult
    /\ gfillers = <<>>
    /\ ApiIdle /\ ConcIdle /\ ScoreIdle /\ FetchIdle

HumanizeEverySentence == Vary(MaxVarySentences)

VaryNext == HumanizeWords \/ HumanizeEverySentence

SpecVary == VaryInit /\ [][VaryNext]_vars

(***************************************************************************)
(* SpecConc: generate_content calls of main.py running at the same time on *)
(* the one generator of api.py, one step of one call at a time, in every   *)
(* interleaving.                                                           *)
(***************************************************************************)
\* The number of calls under way together.
NumCalls == 2

CallIds == 1..NumCalls

\* The generator as __init__ leaves it; the user agents and the stop words
\* are abbreviated.
Generator ==
    [user_agents |-> <<"Windows", "Macintosh", "Linux">>,
     stop_words |-> "english"]

\* What a call is given: its arguments, what its fetch returns, and what
\* its random draws give (the builder's choices, the first filler, the
\* transition given to its second sentence or 0).
ConcInput(args, research, draw, filler, transition) ==
    [args |-> args, research |-> research, draw |-> draw,
     filler |-> filler, transition |-> transition]

ConcInputs ==
    {ConcInput(GenArgs(<<"AI">>, <<>>, "professional", MinLength),
               JStr(fallback_content(<<"AI">>)), Draw(1, 1, <<1, 2, 3>>), 1, 0),
     ConcInput(GenArgs(<<"AI">>, Keywords, "casual", PadLength),
               JStr(<<>>), Draw(2, 2, <<4, 3, 5>>), 4, 2)}

\* The local variables of a call before its first assignment.
NoFrame == [research |-> NoResearch, content |-> <<>>]

\* Where the variables research and content of every call are kept, were
\* they attributes of the generator: in one place.
shared_frame(t) == 1

\* Where the variables research and content of call t are kept: they are
\* local variables, each call has its own.
frame(t) == t

\* The loop of _adjust_length for given draws: the fillers are taken in
\* turn from the first one drawn.
RECURSIVE pad_with(_, _, _)
pad_with(content, target_words, f) ==
    IF Len(word_tokenize(content)) >= target_words THEN content
    ELSE pad_with(add_filler(content, f), target_words,
                  (f % Len(filler_templates)) + 1)

\* _adjust_length.
adjust_length(content, target_words, filler) ==
    trim_to(word_tokenize(pad_with(content, target_words, filler)),
            target_words)

\* _humanize_content for given draws.
humanize_content(content, tone, transition) ==
    LET humanized == humanize_words(content, tone)
        n == Len(sent_tokenize(humanized))
    IN  humanize_sentences(humanized,
            [i \in 1..n |-> IF i = 2 THEN transition ELSE 0])

ConcInit ==
    /\ generator = Generator
    /\ cpc = [t \in CallIds |-> steps[1]]
    /\ cinput \in [CallIds -> ConcInputs]
    /\ cframe = [t \in CallIds |-> NoFrame]
    /\ cresult = [t \in CallIds |-> NoResult]
    /\ ApiIdle /\ ScoreIdle /\ FetchIdle /\ GenIdle

\* Call t runs one step that assigns its local variables.
CallStep(t, step, research, content) ==
    /\ cpc[t] = step
    /\ cpc' = [cpc EXCEPT ![t] = step_after(step)]
    /\ cframe' = [cframe EXCEPT ![frame(t)] =
                    [research |-> research, content |-> content]]
    /\ UNCHANGED <<generator, cinput, cresult>>
    /\ UNCHANGED <<apiVars, scoreVars, fetchVars, genVars>>

\* "Step 1: Research": the only read of a field of the generator is
\* random.choice(self.user_agents) in safe_fetch.
CallFetch(t) ==
    /\ generator.user_agents # <<>>
    /\ CallStep(t, "fetch", cinput[t].research, cframe[frame(t)].content)

CallBuild(t) ==
    LET args == cinput[t].args
        f == cframe[frame(t)]
        r == create_content_structure(args.topic, args.keywords, f.research,
                                      args.tone, cinput[t].draw)
    IN  /\ r.exc = "none"
        /\ CallStep(t, "build", f.research, r.v)

CallAdjust(t) ==
    LET f == cframe[frame(t)]
    IN  CallStep(t, "adjust", f.research,
                 adjust_length(f.content, cinput[t].args.length,
                               cinput[t].filler))

CallHumanize(t) ==
    LET f == cframe[frame(t)]
    IN  CallStep(t, "humanize", f.research,
                 humanize_content(f.content, cinput[t].args.tone,
                                  cinput[t].transition))

CallFormat(t) ==
    LET f == cframe[frame(t)]
    IN  CallStep(t, "format", f.research, format_content(f.content))

CallMetrics(t) ==
    /\ cpc[t] = "score"
    /\ cpc' = [cpc EXCEPT ![t] = step_after("score")]
    /\ cresult' = [cresult EXCEPT ![t] =
                     metrics(cframe[frame(t)].content, cinput[t].args.keywords)]
    /\ UNCHANGED <<generator, cinput, cframe>>
    /\ UNCHANGED <<apiVars, scoreVars, fetchVars, genVars>>

ConcNext ==
    \E t \in CallIds :
        \/ CallFetch(t) \/ CallBuild(t) \/ CallAdjust(t)
        \/ CallHumanize(t) \/ CallFormat(t) \/ CallMetrics(t)

SpecConc == ConcInit /\ [][ConcNext]_vars

(***************************************************************************)
(* Claims about generate_content.                                          *)
(***************************************************************************)
\* The number of words of the longest sentence of a text.
LongestSentence(text) ==
    LET sentences == sent_tokenize(text)
    IN  IF sentences = <<>> THEN 0
        ELSE LET i == CHOOSE j \in 1..Len(sentences) :
                        \A m \in 1..Len(sentences) :
                            Len(word_tokenize(sentences[m]))
                                <= Len(word_tokenize(sentences[j]))
             IN  Len(word_tokenize(sentences[i]))

\* Every outbound call made so far has failed, and one was made.
AllCallsFailed ==
    /\ flog # <<>>
    /\ \A i \in 1..Len(flog) : flog[i] \in {"wiki_failed", "search_failed", "sleep"}

\* C1: for every generate_content call with target length L, 100 <= L <=
\* 2000, and a non-empty topic, whatever the tone, keywords, research text
\* and random choices, the word_count reported in the result is at most L
\* and falls short of L by less than the length of one sentence.
C1_WordCountWithinTarget ==
    (gpc = "done" /\ genArgs.length >= 100 /\ genArgs.length <= 2000
        /\ genArgs.topic # <<>>)
        => /\ gresult.word_count <= genArgs.length
           /\ genArgs.length - gresult.word_count
                < LongestSentence(gresult.content)

\* C5: when every outbound network call fails, generate_content still runs
\* to completion and returns a result with success = true and a non-empty
\* content; the failure of the fetch is never surfaced to the caller.
C5_FetchFailureStillGivesContent ==
    AllCallsFailed =>
        /\ gpc # "raised"
        /\ gpc = "done" => gresult.success /\ gresult.content # <<>>

\* C12: the output of _adjust_length(text, target) has at most target
\* tokens and never ends mid-sentence: it consists of complete sentences
\* only, on the trim path and on the pad path.
C12_AdjustEndsWithCompleteSentence ==
    gpc = "humanize" =>
        /\ Len(word_tokenize(gcontent)) <= genArgs.length
        /\ gcontent = <<>> \/ gcontent[Len(gcontent)] \in Terminators

\* The number of tokens the fillers chosen so far hold.
FillerTokens == Sum([i \in 1..Len(gfillers) |-> Len(filler_templates[gfillers[i]])])

\* C16: the padding loop of _adjust_length terminates under every sequence
\* of filler choices: each iteration strictly increases the token count,
\* the number of iterations is at most the target minus the token count on
\* entry, and the loop is left.
C16_PaddingTerminates ==
    /\ [][(gpc = "pad" /\ gpc' = "pad") =>
            Len(word_tokenize(gcontent')) > Len(word_tokenize(gcontent))]_vars
    /\ [](gpc = "pad" =>
            Len(gfillers) <= genArgs.length
                - (Len(word_tokenize(gcontent)) - FillerTokens))
    /\ (gpc = "pad") ~> (gpc = "humanize")

C16_Witness ==
    gpc = "humanize" /\ Len(gfillers) = 2 /\ gfillers[1] # gfillers[2]

\* A sequence begins with another.
starts_with(text, prefix) ==
    Len(text) >= Len(prefix) /\ SubSeq(text, 1, Len(prefix)) = prefix

\* Every set of sentences other than the first and the last can receive
\* transitions together, whichever transition each of them draws.
EveryMiddleSentenceCanVary(sentences) ==
    LET n == Len(sentences)
    IN  \A chosen \in SUBSET (2..(n - 1)) :
          \A t \in 1..Len(transitions) :
            LET picks == [i \in 1..n |-> IF i \in chosen THEN t ELSE 0]
                varied == add_transitions(sentences, picks)
            IN  \A i \in 1..n :
                  varied[i] = IF i \in chosen
                              THEN transitions[t] \o sentences[i]
                              ELSE sentences[i]

\* What the sentence variety never does: the sentences after it are the
\* sentences before it, in their order, each as it was or with one
\* transition of the fixed set before it, the first and the last as they
\* were.
VaryKeepsSentences ==
    [][gpc = "vary" =>
        LET before == sent_tokenize(gcontent)
            after == sent_tokenize(gcontent')
        IN  /\ Len(after) = Len(before)
            /\ \A i \in 1..Len(before) :
                  \/ after[i] = before[i]
                  \/ /\ 1 < i /\ i < Len(before)
                     /\ \E t \in 1..Len(transitions) :
                           after[i] = transitions[t] \o before[i]]_vars

\* C17: in pass 3 of _humanize_content, for every text of at
\* least 3 sentences, each sentence other than the first and the last can
\* receive a transition (each independently, at most one, of the fixed
\* set), the first and the last never receive one, and the number and the
\* order of the sentences are unchanged.
C17_TransitionsFromThreeSentences ==
    /\ VaryKeepsSentences
    /\ []((gpc = "vary" /\ Len(sent_tokenize(gcontent)) >= 3) =>
            EveryMiddleSentenceCanVary(sent_tokenize(gcontent)))

\* What the code does: the same for every text of more than 3 sentences; a
\* text of 3 sentences or fewer keeps its sentences as they are, whatever
\* is drawn.
TransitionsAboveThreeSentences ==
    /\ VaryKeepsSentences
    /\ [](gpc = "vary" =>
            LET sentences == sent_tokenize(gcontent)
            IN  IF Len(sentences) > 3
                THEN EveryMiddleSentenceCanVary(sentences)
                ELSE \A picks \in [1..Len(sentences) -> 0..Len(transitions)] :
                        add_transitions(sentences, picks) = sentences)

VariedEverySentence ==
    /\ gpc = "format"
    /\ LET after == sent_tokenize(gcontent)
       IN  /\ Len(after) = MaxVarySentences
           /\ starts_with(after[2], transitions[1])
           /\ starts_with(after[3], transitions[4])
           /\ starts_with(after[4], transitions[2])

\* The positions of a text where a section heading ("##") begins.
SectionStarts(text) ==
    {i \in 1..(Len(text) - 1) : text[i] = "#" /\ text[i + 1] = "#"}

\* C18: the section boundaries created by the builder survive to the final
\* content as blank-line paragraph breaks: after _adjust_length,
\* _humanize_content and _format_content, every section that remains in
\* the text is separated from the one before it by a blank line, so the
\* count of paragraph breaks the SEO score uses is no less than the number
\* of sections after the first.
C18_SectionsKeepParagraphBreaks ==
    gpc \in {"score", "done"} =>
        /\ \A i \in SectionStarts(gcontent) :
              i > 1 => gcontent[i - 1] = ParagraphBreak
        /\ count_breaks(gcontent) + 1 >= Cardinality(SectionStarts(gcontent))

\* The step a position of generate_content belongs to: the padding loop is
\* part of "adjust", the sentence variety part of "humanize".
StepOf(pc) ==
    IF pc = "fetch" THEN 1 ELSE IF pc = "build" THEN 2
    ELSE IF pc \in {"adjust", "pad"} THEN 3
    ELSE IF pc \in {"humanize", "vary"} THEN 4
    ELSE IF pc = "format" THEN 5 ELSE IF pc = "score" THEN 6 ELSE 7

\* C20: every generate_content call runs its stages once each in the order
\* fetch, build, adjust length, humanize, format, score, each on the text
\* the stage before it left; word_count, seo_score and the uniqueness
\* score are computed from the final text, the one returned.
C20_StagesOnceInOrder ==
    /\ [][(gpc' # gpc /\ gpc' # "raised") =>
            \/ StepOf(gpc') = StepOf(gpc) + 1
            \/ <<gpc, gpc'>> \in {<<"adjust", "pad">>, <<"humanize", "vary">>}]_vars
    /\ [][gcontent' # gcontent =>
            (gpc \in {"build", "adjust", "pad", "humanize", "vary", "format"}
                /\ (gpc' # gpc \/ gpc = "pad"))]_vars
    /\ [](gpc = "done" =>
            /\ gresult.content = gcontent
            /\ gresult.word_count = Len(word_tokenize(gresult.content))
            /\ gresult.seo_score
                  = calculate_seo_score(gresult.content, genArgs.keywords)
            /\ gresult.plagiarism_score
                  = check_plagiarism(gresult.content, TRUE))

C20_Witness ==
    /\ gpc = "done"
    /\ gresult.success
    /\ gresult.word_count = MinLength
    /\ \E i \in 1..Len(gresult.content) :
          starts_with(gresult.content[i], "**")

\* What generate_content returns for an input when no other call runs.
generate_alone(in) ==
    LET built == create_content_structure(in.args.topic, in.args.keywords,
                                          in.research, in.args.tone, in.draw).v
        adjusted == adjust_length(built, in.args.length, in.filler)
        humanized == humanize_content(adjusted, in.args.tone, in.transition)
    IN  metrics(format_content(humanized), in.args.keywords)

\* C19: concurrent generate_content calls on the shared generator do not
\* interfere: the generator's fields are never modified after
\* construction, a step of one call leaves the local variables and the
\* result of every other call as they are, and under every interleaving
\* each call returns what its own arguments, its own fetch result and its
\* own random draws give when it runs alone.
C19_CallsDoNotInterfere ==
    /\ [][generator' = generator]_vars
    /\ [][\A t \in DOMAIN cpc :
            cpc'[t] = cpc[t] =>
                cframe'[t] = cframe[t] /\ cresult'[t] = cresult[t]]_vars
    /\ [](\A t \in DOMAIN cpc :
            cpc[t] = "done" => cresult[t] = generate_alone(cinput[t]))

C19_Witness ==
    /\ cpc # <<>>
    /\ \A t \in CallIds : cpc[t] = "done" /\ cresult[t].success
    /\ cinput[1] # cinput[2]
    /\ cresult[1].content # cresult[2].content

=============================================================================
